---- MODULE Spec2Model ----
(***************************************************************************)
(* Subscription lifecycle of the billing bot (src/bot.py): activation and   *)
(* renewal of monthly subscriptions, the manual-payment review, promo-code  *)
(* eligibility and the sweep that revokes unpaid subscriptions.             *)
(*                                                                          *)
(* Time.  The program reads the clock through time.time() and through       *)
(* now_local() (Europe/Minsk, a fixed +03:00 offset).  A timestamp of the   *)
(* model is the number of seconds since 1 January of Year0, 00:00:00 local  *)
(* time, so Unix time is the model's time plus a constant.  One handler     *)
(* reads one clock value: the clock does not move inside a handler.         *)
(*                                                                          *)
(* Platform.  Every call to the chat platform may fail; the outcome of a    *)
(* call is an input of the action that makes it.                            *)
(***************************************************************************)
EXTENDS Integers, Sequences, FiniteSets, TLC

\* ----------------------------------------------------------------- bounds
Year0 == 2025
NumYears == 2
MaxSubs == 2
MaxTickets == 1
MaxInvoices == 2
MaxLinks == 2
MaxUsage == 2
MaxCashback == 200
NumUsers == 1
MaxPrice == 20
MaxFixed == 3
MaxLoopErrors == 2
MaxText == 5

\* ------------------------------------------------------- program constants
REFERRAL_PERCENT == 10

NULL == 0 - 1

Users == 1 .. NumUsers
ADMIN_IDS == {9}
Callers == Users \cup ADMIN_IDS

\* a platform account that is no administrator and owns no subscription
Stranger == NumUsers + 1

\* the plans table: plan 1 is bound to group 100, plan 2 has no bound group
plans ==
    [p \in {1, 2} |->
        IF p = 1 THEN [price_cents |-> 1000, group_id |-> 100]
                 ELSE [price_cents |-> 1500, group_id |-> NULL]]

\* managed_groups: group 100 is the default group
get_default_group == 100

\* --------------------------------------------------------------- calendar
IsLeap(y) == (y % 4 = 0 /\ y % 100 # 0) \/ y % 400 = 0

DaysInMonth(y, m) ==
    IF m \in {4, 6, 9, 11} THEN 30
    ELSE IF m = 2 THEN (IF IsLeap(y) THEN 29 ELSE 28)
    ELSE 31

RECURSIVE DaysBeforeMonth(_, _)
DaysBeforeMonth(y, m) ==
    IF m = 1 THEN 0 ELSE DaysBeforeMonth(y, m - 1) + DaysInMonth(y, m - 1)

RECURSIVE DaysBeforeYear(_)
DaysBeforeYear(y) ==
    IF y <= Year0 THEN 0
    ELSE DaysBeforeYear(y - 1) + (IF IsLeap(y - 1) THEN 366 ELSE 365)

\* LOCAL_TZ.localize(datetime(y, m, d, hh, mi, ss)).timestamp()
timestamp(y, m, d, hh, mi, ss) ==
    ((DaysBeforeYear(y) + DaysBeforeMonth(y, m) + (d - 1)) * 24 + hh) * 3600
        + mi * 60 + ss

\* the fields of datetime.now(LOCAL_TZ) when the clock shows ts
local_year(ts) ==
    CHOOSE y \in Year0 .. (Year0 + NumYears + 1) :
        /\ timestamp(y, 1, 1, 0, 0, 0) <= ts
        /\ ts < timestamp(y + 1, 1, 1, 0, 0, 0)

local_month(ts) ==
    LET y == local_year(ts)
    IN  CHOOSE m \in 1 .. 12 :
            /\ timestamp(y, m, 1, 0, 0, 0) <= ts
            /\ ts < timestamp(y, m, DaysInMonth(y, m), 23, 59, 59) + 1

local_day(ts) ==
    ((ts - timestamp(local_year(ts), local_month(ts), 1, 0, 0, 0)) \div 86400) + 1

local_hour(ts) == (ts % 86400) \div 3600

local_minute(ts) == (ts % 3600) \div 60

\* ------------------------------------------------------------------ state
VARIABLES
    now,              \* the clock: seconds since 1 January Year0, local time
    users,            \* users table: user_id -> [referred_by, cashback_cents]
    subscriptions,    \* subscriptions table, row id = index
    manual_payments,  \* manual_payments table, row id = index
    promo_codes,      \* promo_codes table: promo id -> row
    promo_usage,      \* promo_usage table, a sequence of [promo_id, user_id]
    user_states,      \* the in-memory dict user_states: user_id -> session
    sent_invoices,    \* invoices sent to users and not paid yet (payloads)
    link_seq,         \* number of invite links the platform has issued
    last,             \* the latest handler run that wrote to the database or
                      \* sent a message, and what it did
    loop,             \* the thread of check_expirations_loop: its position
                      \* and the number of exceptions it has logged
    admin,            \* the administrator's plan dialogue (admin_states): the
                      \* text entered, the step, the price held by the
                      \* dialogue, the price_cents column of the plan and
                      \* the price shown in the bot's answer
    threads,          \* the threads that run handlers (the bot's workers) and
                      \* the thread of check_expirations_loop: the position
                      \* of each in its handler and its local variables
    banned,           \* the platform: the users whose latest membership
                      \* operation in their group is a ban
    cursor            \* the module-level database cursor: the thread whose
                      \* statement it executed last and the rows not yet
                      \* fetched

vars ==
    <<now, users, subscriptions, manual_payments, promo_codes, promo_usage,
      user_states, sent_invoices, link_seq, last, loop, admin, threads,
      banned, cursor>>

\* line 5507: the loop thread is started with the bot, at the top of its
\* `while True` body, with nothing logged
LoopStart == [pc |-> "evaluate", logged |-> 0]

\* no plan dialogue is open (<< >>: no value)
NoDialogue ==
    [text |-> << >>, mode |-> "none", step |-> "none", price_cents |-> << >>,
     plan_price |-> << >>, shown |-> << >>]

NoEvent ==
    [op |-> "init", ok |-> FALSE, user |-> 0, plan |-> 0, sub |-> 0,
     did |-> "none", ticket |-> 0, result |-> NULL, reason |-> "",
     swept |-> {}, banned |-> {}, ban_ok |-> {}, notified |-> {},
     notify_ok |-> {}, msgs |-> {}, bot_admin |-> FALSE, issued |-> FALSE,
     reminded |-> [i \in 1 .. MaxSubs |-> NULL],
     group_hint |-> NULL, platform |-> FALSE, amount |-> 0,
     period |-> <<0, 0>>]

\* last.group_hint is the group an activation was called with, last.platform
\* whether the activation called the platform (unban, invite link),
\* last.amount the total amount of a gateway payment, last.period the
\* (month, year) recorded on the invoice a gateway payment paid.
\* last.reminded[i] is the time of the latest renewal reminder delivered for
\* row i; every event carries it over
Ev(op) == [NoEvent EXCEPT !.op = op, !.reminded = last.reminded]

Msg(to, kind, link) == [to |-> to, kind |-> kind, link |-> link]

\* the instants the clock of the lifecycle specification takes: a day of
\* December, then a day of January on which a December payment is still
\* valid, and the 6th of January 00:01 (the sweep's trigger)
Instants ==
    { timestamp(Year0, 12, 20, 12, 0, 0),
      timestamp(Year0 + 1, 1, 3, 12, 0, 0),
      timestamp(Year0 + 1, 1, 6, 0, 1, 0) }

\* the instants of the reminder specification: an activation in December,
\* the loop's renewal reminder of 1 January 10:00 and a run two hours later,
\* the last second of January, and the loop's renewal reminder of
\* 1 February 10:00
NotifyInstants ==
    { timestamp(Year0, 12, 20, 12, 0, 0),
      timestamp(Year0 + 1, 1, 1, 10, 0, 0),
      timestamp(Year0 + 1, 1, 1, 12, 0, 0),
      timestamp(Year0 + 1, 1, 31, 23, 59, 59),
      timestamp(Year0 + 1, 2, 1, 10, 0, 0) }

\* the instants of the deadline specification: an activation in December,
\* the last second of December, and the loop's deadline trigger of
\* 4 January 18:00 with the minute after it
DeadlineInstants ==
    { timestamp(Year0, 12, 20, 12, 0, 0),
      timestamp(Year0, 12, 31, 23, 59, 59),
      timestamp(Year0 + 1, 1, 4, 18, 0, 0),
      timestamp(Year0 + 1, 1, 4, 18, 1, 0) }

\* the instants of the calendar specification: the first and the last second
\* of every day of NumYears years
CalInstants ==
    UNION { UNION { { timestamp(y, m, d, 0, 0, 0), timestamp(y, m, d, 23, 59, 59) } :
                        d \in 1 .. DaysInMonth(y, m) } :
                y \in Year0 .. (Year0 + NumYears - 1), m \in 1 .. 12 }

\* the 5th of the next month number without the year turning after December
end_ts_of_same_year(ts) ==
    LET m == local_month(ts)
    IN  timestamp(local_year(ts), IF m = 12 THEN 1 ELSE m + 1, 5, 23, 59, 59)

\* lines 527-537: the 5th of the next calendar month, 23:59:59 local time
end_ts_of(ts) ==
    LET m == local_month(ts)
        y == local_year(ts)
        next_month == IF m = 12 THEN 1 ELSE m + 1
        next_year == IF m = 12 THEN y + 1 ELSE y
    IN  timestamp(next_year, next_month, 5, 23, 59, 59)

\* (month, year) of every instant the clock takes, computed once
period_of ==
    [t \in Instants \cup NotifyInstants \cup DeadlineInstants \cup CalInstants |->
        <<local_month(t), local_year(t)>>]

\* get_current_period(): (now.month, now.year)
get_current_period == period_of[now]

\* end_ts_of at every instant the clock takes, computed once
end_ts_at ==
    [t \in Instants \cup NotifyInstants \cup DeadlineInstants \cup CalInstants |-> end_ts_of(t)]

\* ------------------------------------------------------------- activation
\* a lookup that never finds the active row
existing_sub_never(user_id, plan_id) == 0

\* lines 515-525: the latest active row of (user, plan), 0 when there is none
existing_sub(user_id, plan_id) ==
    LET ids == {i \in 1 .. Len(subscriptions) :
                    /\ subscriptions[i].user_id = user_id
                    /\ subscriptions[i].plan_id = plan_id
                    /\ subscriptions[i].active = 1}
    IN  IF ids = {} THEN 0 ELSE CHOOSE i \in ids : \A j \in ids : j <= i

\* a test that never takes the refresh-only branch
already_paid_never(row) == FALSE

\* lines 555-560: the row is already paid for the current month and unexpired
already_paid(row) ==
    /\ row.current_period_month = get_current_period[1]
    /\ row.current_period_year = get_current_period[2]
    /\ row.part_paid = "full"
    /\ row.end_ts > now

\* an UPDATE that moves the dates and the link and keeps the paid period
renewed_row_keeps_period(row, link) ==
    [row EXCEPT !.start_ts = now, !.end_ts = end_ts_at[now],
                !.invite_link = link, !.last_notification_ts = NULL,
                !.active = 1, !.removed = 0]

\* lines 574-592: the UPDATE that renews an existing row
renewed_row(row, link) ==
    [row EXCEPT !.current_period_month = get_current_period[1],
                !.current_period_year = get_current_period[2],
                !.part_paid = "full",
                !.start_ts = now,
                !.end_ts = end_ts_at[now],
                !.invite_link = link,
                !.last_notification_ts = NULL,
                !.active = 1,
                !.removed = 0]

\* lines 595-614: the INSERT of a new subscription
new_row(user_id, plan_id, target_group_id, link) ==
    [user_id |-> user_id, plan_id |-> plan_id, start_ts |-> now,
     end_ts |-> end_ts_at[now], invite_link |-> link, active |-> 1,
     removed |-> 0, group_id |-> target_group_id,
     current_period_month |-> get_current_period[1],
     current_period_year |-> get_current_period[2],
     part_paid |-> "full", last_notification_ts |-> NULL]

\* an activation that falls back to the default managed group when neither
\* the plan nor the caller names a group
activate_subscription_default_group(user_id, plan_id, group_id, link) ==
    LET target_group_id ==
            IF plan_id \in DOMAIN plans /\ plans[plan_id].group_id # NULL
            THEN plans[plan_id].group_id
            ELSE IF group_id # NULL THEN group_id ELSE get_default_group
        sub_id == existing_sub(user_id, plan_id)
    IN  IF sub_id # 0 /\ already_paid(subscriptions[sub_id])
        THEN [success |-> TRUE, result |-> link, reason |-> "",
              subs |-> [subscriptions EXCEPT
                            ![sub_id].invite_link = link,
                            ![sub_id].last_notification_ts = NULL],
              sub |-> sub_id, did |-> "refresh", platform |-> TRUE]
        ELSE IF sub_id # 0
        THEN [success |-> TRUE, result |-> link, reason |-> "",
              subs |-> [subscriptions EXCEPT
                            ![sub_id] = renewed_row(subscriptions[sub_id], link)],
              sub |-> sub_id, did |-> "renew", platform |-> TRUE]
        ELSE [success |-> TRUE, result |-> link, reason |-> "",
              subs |-> Append(subscriptions,
                              new_row(user_id, plan_id, target_group_id, link)),
              sub |-> Len(subscriptions) + 1, did |-> "insert",
              platform |-> TRUE]

\* activate_subscription(user_id, plan_id, payment_type, group_id): `link` is
\* what create_chat_invite_link_one_time returns when it is called (NULL when
\* the platform fails).  The result holds the returned pair (success, result /
\* reason), the subscriptions table after the call, the row written (0: none),
\* what was done with it, and whether the platform was called (unban, link).
activate_subscription(user_id, plan_id, group_id, link) ==
    LET target_group_id ==
            IF plan_id \in DOMAIN plans /\ plans[plan_id].group_id # NULL
            THEN plans[plan_id].group_id ELSE group_id
        sub_id == existing_sub(user_id, plan_id)
        failed(reason) ==
            [success |-> FALSE, result |-> NULL, reason |-> reason,
             subs |-> subscriptions, sub |-> 0, did |-> "none",
             platform |-> FALSE]
    IN  IF plan_id \notin DOMAIN plans THEN failed("PlanNotFound")
        ELSE IF target_group_id = NULL THEN failed("NoGroupConfigured")
        ELSE IF sub_id # 0 /\ already_paid(subscriptions[sub_id])
        THEN [success |-> TRUE, result |-> link, reason |-> "",
              subs |-> [subscriptions EXCEPT
                            ![sub_id].invite_link = link,
                            ![sub_id].last_notification_ts = NULL],
              sub |-> sub_id, did |-> "refresh", platform |-> TRUE]
        ELSE IF sub_id # 0
        THEN [success |-> TRUE, result |-> link, reason |-> "",
              subs |-> [subscriptions EXCEPT
                            ![sub_id] = renewed_row(subscriptions[sub_id], link)],
              sub |-> sub_id, did |-> "renew", platform |-> TRUE]
        ELSE [success |-> TRUE, result |-> link, reason |-> "",
              subs |-> Append(subscriptions,
                              new_row(user_id, plan_id, target_group_id, link)),
              sub |-> Len(subscriptions) + 1, did |-> "insert",
              platform |-> TRUE]

\* create_chat_invite_link_one_time: a link never issued before, or None
create_chat_invite_link_one_time(issued) ==
    IF issued THEN link_seq + 1 ELSE NULL

\* ------------------------------------------------------------ status check
\* a test that does not look at the period of the row
paid_for_current_any_period(row) ==
    row.part_paid = "full" /\ row.end_ts > now

\* lines 5738-5743
paid_for_current(row) ==
    /\ row.current_period_month = get_current_period[1]
    /\ row.current_period_year = get_current_period[2]
    /\ row.part_paid = "full"
    /\ row.end_ts > now

\* lines 5705-5718: the active row of (user, plan) with the greatest end_ts
\* (joined with plans), 0 when there is none
status_row(user_id, plan_id) ==
    LET ids == {i \in 1 .. Len(subscriptions) :
                    /\ subscriptions[i].user_id = user_id
                    /\ subscriptions[i].plan_id = plan_id
                    /\ subscriptions[i].plan_id \in DOMAIN plans
                    /\ subscriptions[i].active = 1}
    IN  IF ids = {} THEN 0
        ELSE CHOOSE i \in ids :
                \A j \in ids : subscriptions[j].end_ts <= subscriptions[i].end_ts

\* check_existing_subscription(user_id, plan_id): None (found = FALSE) or the
\* dict's fields "id", "paid", "needs_renewal" and "status"
check_existing_subscription(user_id, plan_id) ==
    LET i == status_row(user_id, plan_id)
    IN  IF i = 0
        THEN [found |-> FALSE, id |-> 0, paid |-> FALSE,
              needs_renewal |-> FALSE, status |-> "none"]
        ELSE LET row == subscriptions[i]
                 paid == paid_for_current(row)
             IN  [found |-> TRUE, id |-> i, paid |-> paid,
                  needs_renewal |-> (~paid \/ row.end_ts <= now),
                  status |-> IF paid THEN "paid"
                             ELSE IF row.end_ts < now THEN "expired"
                             ELSE "needs_payment"]

\* ------------------------------------------------------------ promo codes
\* a check that looks at the recorded usages after the promo's own fields
can_use_promo_code_usage_last(promo_id, user_id) ==
    IF promo_id \notin DOMAIN promo_codes THEN <<FALSE, "NotFound">>
    ELSE LET promo == promo_codes[promo_id]
         IN  IF promo.is_active = 0 THEN <<FALSE, "Inactive">>
             ELSE IF promo.max_uses # NULL /\ promo.max_uses # 0
                     /\ promo.used_count >= promo.max_uses
             THEN <<FALSE, "ExhaustedUses">>
             ELSE IF promo.expires_ts # NULL /\ promo.expires_ts # 0
                     /\ promo.expires_ts < now
             THEN <<FALSE, "Expired">>
             ELSE IF \E k \in 1 .. Len(promo_usage) :
                        /\ promo_usage[k].promo_id = promo_id
                        /\ promo_usage[k].user_id = user_id
             THEN <<FALSE, "AlreadyUsed">>
             ELSE <<TRUE, "OK">>

\* a check that looks at the expiry before the flag and the cap
can_use_promo_code_expiry_first(promo_id, user_id) ==
    IF \E k \in 1 .. Len(promo_usage) :
            promo_usage[k].promo_id = promo_id /\ promo_usage[k].user_id = user_id
    THEN <<FALSE, "AlreadyUsed">>
    ELSE IF promo_id \notin DOMAIN promo_codes THEN <<FALSE, "NotFound">>
    ELSE LET promo == promo_codes[promo_id]
         IN  IF promo.expires_ts # NULL /\ promo.expires_ts # 0
                     /\ promo.expires_ts < now
             THEN <<FALSE, "Expired">>
             ELSE IF promo.is_active = 0 THEN <<FALSE, "Inactive">>
             ELSE IF promo.max_uses # NULL /\ promo.max_uses # 0
                     /\ promo.used_count >= promo.max_uses
             THEN <<FALSE, "ExhaustedUses">>
             ELSE <<TRUE, "OK">>

\* can_use_promo_code(promo_id, user_id): (can_use, reason)
can_use_promo_code(promo_id, user_id) ==
    IF \E k \in 1 .. Len(promo_usage) :
            promo_usage[k].promo_id = promo_id /\ promo_usage[k].user_id = user_id
    THEN <<FALSE, "AlreadyUsed">>
    ELSE IF promo_id \notin DOMAIN promo_codes THEN <<FALSE, "NotFound">>
    ELSE LET promo == promo_codes[promo_id]
         IN  IF promo.is_active = 0 THEN <<FALSE, "Inactive">>
             ELSE IF promo.max_uses # NULL /\ promo.max_uses # 0
                     /\ promo.used_count >= promo.max_uses
             THEN <<FALSE, "ExhaustedUses">>
             ELSE IF promo.expires_ts # NULL /\ promo.expires_ts # 0
                     /\ promo.expires_ts < now
             THEN <<FALSE, "Expired">>
             ELSE <<TRUE, "OK">>

\* an application that does not floor the new price at 0
apply_promo_code_unclamped(price_cents, promo) ==
    IF promo.discount_percent # NULL /\ promo.discount_percent # 0
    THEN price_cents - ((price_cents * promo.discount_percent) \div 100)
    ELSE IF promo.discount_fixed_cents # NULL /\ promo.discount_fixed_cents # 0
    THEN price_cents - promo.discount_fixed_cents
    ELSE price_cents

\* apply_promo_code(price_cents, promo_data): the new price
apply_promo_code(price_cents, promo) ==
    LET max0(x) == IF x < 0 THEN 0 ELSE x
    IN  IF promo.discount_percent # NULL /\ promo.discount_percent # 0
        THEN max0(price_cents - ((price_cents * promo.discount_percent) \div 100))
        ELSE IF promo.discount_fixed_cents # NULL /\ promo.discount_fixed_cents # 0
        THEN max0(price_cents - promo.discount_fixed_cents)
        ELSE price_cents

\* ------------------------------------------------------------------ prices
\* Texts are sequences of characters.  DigitChars[d + 1] is the digit d.
DigitChars == <<"0", "1", "2", "3", "4", "5", "6", "7", "8", "9">>

IsDigit(c) == \E d \in 1 .. 10 : DigitChars[d] = c

digit_value(c) == (CHOOSE d \in 1 .. 10 : DigitChars[d] = c) - 1

\* line 36: CURRENCY
CURRENCY == "BYN"

\* str.strip(): the text without its leading and trailing blanks
strip(s) ==
    LET kept == {i \in 1 .. Len(s) : s[i] # " "}
        first == CHOOSE i \in kept : \A j \in kept : i <= j
        final == CHOOSE i \in kept : \A j \in kept : j <= i
    IN  IF kept = {} THEN << >> ELSE SubSeq(s, first, final)

RECURSIVE digits_value(_)
digits_value(s) ==
    IF s = << >> THEN 0
    ELSE 10 * digits_value(SubSeq(s, 1, Len(s) - 1)) + digit_value(s[Len(s)])

\* int(s): blanks around the number are ignored, a minus sign may precede
\* the digits; anything else raises ValueError (ok = FALSE)
python_int(s) ==
    LET t == strip(s)
        negative == t # << >> /\ t[1] = "-"
        body == IF negative THEN Tail(t) ELSE t
        valid == body # << >> /\ \A i \in 1 .. Len(body) : IsDigit(body[i])
    IN  IF ~valid THEN [ok |-> FALSE, value |-> 0]
        ELSE [ok |-> TRUE,
              value |-> IF negative THEN 0 - digits_value(body)
                        ELSE digits_value(body)]

\* s.split(".")[k - 1] for k = 1, 2 of a text that holds a "."
split_dot(s, k) ==
    LET dots == {i \in 1 .. Len(s) : s[i] = "."}
        d1 == CHOOSE i \in dots : \A j \in dots : i <= j
        later == dots \ {d1}
        d2 == IF later = {} THEN Len(s) + 1
              ELSE CHOOSE i \in later : \A j \in later : i <= j
    IN  IF k = 1 THEN SubSeq(s, 1, d1 - 1) ELSE SubSeq(s, d1 + 1, d2 - 1)

\* a parse that pads a short fraction on the left
cents_from_str_rjust(s) ==
    LET t == strip(s)
        whole == python_int(split_dot(t, 1))
        part == split_dot(t, 2)
        cut == IF Len(part) > 2 THEN SubSeq(part, 1, 2) ELSE part
        frac == IF Len(cut) = 0 THEN <<"0", "0">>
                ELSE IF Len(cut) = 1 THEN <<"0">> \o cut ELSE cut
        plain == python_int(t)
    IN  IF \E i \in 1 .. Len(t) : t[i] = "."
        THEN IF whole.ok /\ python_int(frac).ok
             THEN [ok |-> TRUE,
                   cents |-> whole.value * 100 + python_int(frac).value]
             ELSE [ok |-> FALSE, cents |-> 0]
        ELSE IF plain.ok THEN [ok |-> TRUE, cents |-> plain.value * 100]
        ELSE [ok |-> FALSE, cents |-> 0]

\* cents_from_str(s): ok = FALSE stands for None.  The fraction is
\* parts[1][:2].ljust(2, "0").
cents_from_str(s) ==
    LET t == strip(s)
        whole == python_int(split_dot(t, 1))
        part == split_dot(t, 2)
        cut == IF Len(part) > 2 THEN SubSeq(part, 1, 2) ELSE part
        frac == IF Len(cut) = 0 THEN <<"0", "0">>
                ELSE IF Len(cut) = 1 THEN cut \o <<"0">> ELSE cut
        plain == python_int(t)
    IN  IF \E i \in 1 .. Len(t) : t[i] = "."
        THEN IF whole.ok /\ python_int(frac).ok
             THEN [ok |-> TRUE,
                   cents |-> whole.value * 100 + python_int(frac).value]
             ELSE [ok |-> FALSE, cents |-> 0]
        ELSE IF plain.ok THEN [ok |-> TRUE, cents |-> plain.value * 100]
        ELSE [ok |-> FALSE, cents |-> 0]

RECURSIVE nat_str(_)
nat_str(n) ==
    IF n < 10 THEN <<DigitChars[n + 1]>>
    ELSE nat_str(n \div 10) \o <<DigitChars[(n % 10) + 1]>>

\* str(n) of an integer
int_str(n) == IF n < 0 THEN <<"-">> \o nat_str(0 - n) ELSE nat_str(n)

\* price_str_from_cents(cents): f"{cents//100}.{cents%100:02d} {CURRENCY}";
\* // and % round towards minus infinity, as \div and % do
price_str_from_cents(cents) ==
    int_str(cents \div 100)
        \o <<".", DigitChars[((cents % 100) \div 10) + 1],
             DigitChars[((cents % 100) % 10) + 1], " ", CURRENCY>>

\* handle_plan_price: step 'price' of the dialogue that creates a plan; the
\* handler answers with an error only when the text does not parse
handle_plan_price ==
    LET cents == cents_from_str(admin.text)
    IN  /\ admin.mode = "create"
        /\ admin.step = "price"
        /\ cents.ok
        /\ admin' = [admin EXCEPT !.price_cents = <<cents.cents>>,
                                  !.step = "description",
                                  !.shown = price_str_from_cents(cents.cents)]
        /\ UNCHANGED <<now, users, subscriptions, manual_payments, promo_codes,
                       promo_usage, user_states, sent_invoices, link_seq, last,
                       loop,
                       threads, banned, cursor>>

\* save_plan_to_db: the INSERT at the end of the dialogue that creates a plan
save_plan_to_db ==
    /\ admin.mode = "create"
    /\ admin.step = "description"
    /\ admin' = [admin EXCEPT !.plan_price = admin.price_cents,
                              !.step = "saved"]
    /\ UNCHANGED <<now, users, subscriptions, manual_payments, promo_codes,
                   promo_usage, user_states, sent_invoices, link_seq, last,
                   loop,
                   threads, banned, cursor>>

\* handle_edit_text_input, field 'price': the handler answers with an error
\* only when the text does not parse
handle_edit_text_input ==
    LET cents == cents_from_str(admin.text)
    IN  /\ admin.mode = "edit"
        /\ admin.step = "editing_price"
        /\ cents.ok
        /\ admin' = [admin EXCEPT !.plan_price = <<cents.cents>>,
                                  !.step = "edit_choice",
                                  !.shown = price_str_from_cents(cents.cents)]
        /\ UNCHANGED <<now, users, subscriptions, manual_payments, promo_codes,
                       promo_usage, user_states, sent_invoices, link_seq, last,
                       loop,
                       threads, banned, cursor>>

\* --------------------------------------------------------------- sessions
NoSession ==
    [mode |-> "none", plan_id |-> 0, group_id |-> NULL, original_price |-> NULL,
     final_price |-> NULL, amount_cents |-> NULL, promo_id |-> NULL,
     step |-> "none"]

\* lines 2081-2089: the session callback_buy_with_promo writes
promo_session(pid) ==
    [NoSession EXCEPT !.mode = "promo_input_direct", !.plan_id = pid,
                      !.group_id = plans[pid].group_id,
                      !.original_price = plans[pid].price_cents]

\* lines 2889-2897 and 3160-3167, then 3218-3219: the session of a user who
\* started a manual payment, confirmed it and sent the receipt photo
manual_session(pid, amount_cents, promo_id) ==
    [NoSession EXCEPT !.mode = "manual_payment", !.plan_id = pid,
                      !.amount_cents = amount_cents, !.promo_id = promo_id,
                      !.step = "waiting_name"]

\* user_states.pop(user_id, None)
pop_state(user_id) == [user_states EXCEPT ![user_id] = NoSession]

\* ---------------------------------------------------------------- actions
\* the clock moves to a later instant of the window
Tick(t) ==
    /\ t > now
    /\ now' = t
    /\ last' = Ev("tick")
    /\ UNCHANGED <<users, subscriptions, manual_payments, promo_codes,
                   promo_usage, user_states, sent_invoices, link_seq, loop,
                   admin,
                   threads, banned, cursor>>

\* cmd_start with add_user_if_not_exists: the users row is inserted once
cmd_start(user_id, ref) ==
    /\ users' =
        IF users[user_id].registered THEN users
        ELSE [users EXCEPT ![user_id] =
                [registered |-> TRUE,
                 referred_by |-> IF ref # NULL /\ ref # user_id THEN ref ELSE NULL,
                 cashback_cents |-> 0]]
    /\ last' = IF users[user_id].registered THEN last ELSE Ev("cmd_start")
    /\ UNCHANGED <<now, subscriptions, manual_payments, promo_codes,
                   promo_usage, user_states, sent_invoices, link_seq, loop,
                   admin,
                   threads, banned, cursor>>

\* an invoice creation that also records the promo usage
process_card_payment_records_usage(user_id, pid, price_cents, group_id, promo_id, sent) ==
    LET payload == [plan_id |-> pid, user_id |-> user_id,
                    promo_id |-> IF promo_id = NULL THEN 0 ELSE promo_id,
                    amount_cents |-> price_cents, created_ts |-> now,
      period_month |-> get_current_period[1],
      period_year |-> get_current_period[2]]
    IN  /\ sent
        /\ Cardinality(sent_invoices \cup {payload}) <= MaxInvoices
        /\ Len(promo_usage) < MaxUsage
        /\ sent_invoices' = sent_invoices \cup {payload}
        /\ promo_usage' =
            Append(promo_usage, [promo_id |-> payload.promo_id, user_id |-> user_id])
        /\ last' = [Ev("process_card_payment") EXCEPT !.ok = TRUE]
        /\ UNCHANGED <<now, users, subscriptions, manual_payments, promo_codes,
                       user_states, link_seq, loop, admin,
                       threads, banned, cursor>>

\* process_card_payment(call, pid, user, title, price_cents, description,
\* group_id, payment_type, promo_id): `sent` is whether send_invoice succeeded.
\* The invoices table is written and never read; the payload is what the
\* gateway echoes on success; it ends with int(time.time()), so invoices
\* created at different instants have different payloads.
process_card_payment(user_id, pid, price_cents, group_id, promo_id, sent) ==
    LET group == IF group_id = NULL THEN get_default_group ELSE group_id
        payload == [plan_id |-> pid, user_id |-> user_id,
                    promo_id |-> IF promo_id = NULL THEN 0 ELSE promo_id,
                    amount_cents |-> price_cents, created_ts |-> now,
      period_month |-> get_current_period[1],
      period_year |-> get_current_period[2]]
    IN  /\ Cardinality(sent_invoices \cup {payload}) <= MaxInvoices
        /\ sent_invoices' =
            IF group # NULL /\ sent THEN sent_invoices \cup {payload}
            ELSE sent_invoices
        /\ last' = IF group # NULL /\ sent
                   THEN [Ev("process_card_payment") EXCEPT !.ok = TRUE]
                   ELSE last
        /\ UNCHANGED <<now, users, subscriptions, manual_payments, promo_codes,
                       promo_usage, user_states, link_seq, loop, admin,
                       threads, banned, cursor>>

\* handle_full_name: the ticket is inserted from the user's session `state`
handle_full_name(user_id, state) ==
    /\ state.mode = "manual_payment"
    /\ state.step = "waiting_name"
    /\ Len(manual_payments) < MaxTickets
    /\ manual_payments' =
        Append(manual_payments,
               [user_id |-> user_id, plan_id |-> state.plan_id,
                amount_cents |-> state.amount_cents, status |-> "pending",
                admin_id |-> NULL, promo_id |-> state.promo_id])
    /\ user_states' = pop_state(user_id)
    /\ last' = [Ev("handle_full_name") EXCEPT
                    !.user = user_id, !.plan = state.plan_id,
                    !.ticket = Len(manual_payments) + 1,
                    !.msgs = {Msg(a, "review_request", NULL) : a \in ADMIN_IDS}]
    /\ UNCHANGED <<now, users, subscriptions, promo_codes, promo_usage,
                   sent_invoices, link_seq, loop, admin,
                   threads, banned, cursor>>

\* a cashback rounded to the nearest cent
referral_cashback_rounded(amount_cents) ==
    (amount_cents * REFERRAL_PERCENT + 50) \div 100

\* line 3383: int(math.floor(amount_cents * REFERRAL_PERCENT / 100.0))
referral_cashback(amount_cents) ==
    (amount_cents * REFERRAL_PERCENT) \div 100

\* got_payment: the gateway's success callback for an invoice the bot sent.
\* `state_group_id` is state.get("group_id") of the payer's session, `issued`
\* whether the platform issues the invite link.
got_payment(user_id, payload, state_group_id, issued) ==
    LET link == create_chat_invite_link_one_time(issued)
        act == activate_subscription(user_id, payload.plan_id, state_group_id, link)
        promo_id == payload.promo_id
        use_promo == act.success /\ promo_id > 0
        referred_by ==
            IF users[user_id].registered THEN users[user_id].referred_by ELSE NULL
        cashback == referral_cashback(payload.amount_cents)
        credit == act.success /\ referred_by # NULL /\ referred_by # 0
    IN  /\ payload.user_id = user_id
        /\ Len(act.subs) <= MaxSubs
        /\ (act.platform /\ issued) => link_seq < MaxLinks
        /\ use_promo => Len(promo_usage) < MaxUsage
        /\ (credit /\ users[referred_by].registered) =>
                users[referred_by].cashback_cents + cashback <= MaxCashback
        /\ sent_invoices' = sent_invoices \ {payload}
        /\ subscriptions' = act.subs
        /\ link_seq' = IF act.platform /\ issued THEN link_seq + 1 ELSE link_seq
        /\ promo_usage' =
            IF use_promo
            THEN Append(promo_usage, [promo_id |-> promo_id, user_id |-> user_id])
            ELSE promo_usage
        /\ promo_codes' =
            IF use_promo /\ promo_id \in DOMAIN promo_codes
            THEN [promo_codes EXCEPT ![promo_id].used_count = @ + 1]
            ELSE promo_codes
        /\ users' =
            IF credit /\ users[referred_by].registered
            THEN [users EXCEPT ![referred_by].cashback_cents = @ + cashback]
            ELSE users
        /\ user_states' = IF act.success THEN pop_state(user_id) ELSE user_states
        /\ last' = [Ev("got_payment") EXCEPT
                        !.user = user_id, !.plan = payload.plan_id,
                        !.ok = act.success, !.result = act.result,
                        !.reason = act.reason, !.sub = act.sub, !.did = act.did,
                        !.group_hint = state_group_id,
                        !.amount = payload.amount_cents,
                        !.period = <<payload.period_month,
                                     payload.period_year>>,
                        !.platform = act.platform,
                        !.msgs =
                            IF act.success
                            THEN {Msg(user_id, "activated", act.result)}
                                 \cup (IF credit
                                       THEN {Msg(referred_by, "cashback", NULL)}
                                       ELSE {})
                            ELSE {Msg(user_id, "activation_error", NULL)}]
        /\ UNCHANGED <<now, manual_payments, loop, admin,
                       threads, banned, cursor>>

\* a lookup by id alone, whatever the status
pending_payment_any_status(payment_id) ==
    payment_id \in 1 .. Len(manual_payments)

\* lines 4856-4870: the ticket is looked up by id with status 'pending'
pending_payment(payment_id) ==
    /\ payment_id \in 1 .. Len(manual_payments)
    /\ manual_payments[payment_id].status = "pending"

\* handle_payment_review: approve_payment:<id> or reject_payment:<id>.  The
\* handler returns at once (with an alert only) when the caller is not an
\* administrator or the ticket is not found with status 'pending'.
handle_payment_review(caller, payment_id, is_approve, issued) ==
    LET payment == manual_payments[payment_id]
        link == create_chat_invite_link_one_time(issued)
        act == activate_subscription(payment.user_id, payment.plan_id, NULL, link)
        ev == [Ev("handle_payment_review") EXCEPT
                    !.user = payment.user_id, !.plan = payment.plan_id,
                    !.ticket = payment_id]
        reviewed(status) ==
            [manual_payments EXCEPT
                ![payment_id].status = status,
                ![payment_id].admin_id = caller]
    IN  /\ caller \in ADMIN_IDS
        /\ pending_payment(payment_id)
        /\ UNCHANGED <<now, users, promo_codes, promo_usage, user_states,
                       sent_invoices, loop, admin,
                       threads, banned, cursor>>
        /\ IF is_approve
           THEN /\ Len(act.subs) <= MaxSubs
                /\ (act.platform /\ issued) => link_seq < MaxLinks
                /\ subscriptions' = act.subs
                /\ link_seq' =
                      IF act.platform /\ issued THEN link_seq + 1 ELSE link_seq
                /\ manual_payments' =
                      IF act.success THEN reviewed("approved")
                      ELSE manual_payments
                /\ last' = [ev EXCEPT
                      !.ok = act.success, !.result = act.result,
                      !.reason = act.reason, !.sub = act.sub, !.did = act.did,
                      !.platform = act.platform,
                      !.msgs =
                          IF act.success
                          THEN {Msg(payment.user_id, "approved", act.result)}
                          ELSE {}]
           ELSE /\ manual_payments' = reviewed("rejected")
                /\ last' = [ev EXCEPT
                      !.reason = "Rejected",
                      !.msgs = {Msg(payment.user_id, "rejected", NULL)}]
                /\ UNCHANGED <<subscriptions, link_seq, loop, admin,
                               threads, banned, cursor>>

\* what the platform answers about a chat and the bot's membership of it
ChatAnswers == {"unreachable", "private", "channel", "administrator", "creator",
                "member", "left"}

\* is_bot_admin_in_chat(chat_id) on the platform's answer: False when the
\* platform call fails, True for a private chat or a channel, otherwise
\* whether the bot's member status is administrator or creator
is_bot_admin_in_chat(answer) ==
    IF answer = "unreachable" THEN FALSE
    ELSE IF answer \in {"private", "channel"} THEN TRUE
    ELSE answer \in {"administrator", "creator"}

\* a handler that issues the link to any caller
callback_new_link_any_caller(uid, sub_id, bot_admin, issued) ==
    /\ sub_id \in 1 .. Len(subscriptions)
    /\ subscriptions[sub_id].group_id # NULL
    /\ bot_admin
    /\ issued
    /\ link_seq < MaxLinks
    /\ link_seq' = link_seq + 1
    /\ subscriptions' =
        [subscriptions EXCEPT
            ![sub_id].invite_link = link_seq + 1,
            ![sub_id].last_notification_ts = now]
    /\ last' = [Ev("callback_new_link") EXCEPT
            !.user = uid, !.sub = sub_id, !.ok = TRUE, !.result = link_seq + 1,
            !.bot_admin = bot_admin, !.issued = issued,
            !.msgs = {Msg(subscriptions[sub_id].user_id, "new_link",
                          link_seq + 1)}]
    /\ UNCHANGED <<now, users, manual_payments, promo_codes, promo_usage,
                   user_states, sent_invoices, loop, admin,
                   threads, banned, cursor>>

\* callback_new_link: new_link:<subscription id>; `bot_admin` is what
\* is_bot_admin_in_chat answers, `issued` whether the platform issues a link.
\* The handler returns at once (with an alert only) when the row is not
\* found, the caller is neither its owner nor an administrator, the row has
\* no group, the bot is not an administrator of the group or no link is
\* issued.
callback_new_link(uid, sub_id, bot_admin, issued) ==
    /\ sub_id \in 1 .. Len(subscriptions)
    /\ uid = subscriptions[sub_id].user_id \/ uid \in ADMIN_IDS
    /\ subscriptions[sub_id].group_id # NULL
    /\ bot_admin
    /\ issued
    /\ link_seq < MaxLinks
    /\ link_seq' = link_seq + 1
    /\ subscriptions' =
        [subscriptions EXCEPT
            ![sub_id].invite_link = link_seq + 1,
            ![sub_id].last_notification_ts = now]
    /\ last' = [Ev("callback_new_link") EXCEPT
            !.user = uid, !.sub = sub_id, !.ok = TRUE, !.result = link_seq + 1,
            !.bot_admin = bot_admin, !.issued = issued,
            !.msgs = {Msg(subscriptions[sub_id].user_id, "new_link",
                          link_seq + 1)}]
    /\ UNCHANGED <<now, users, manual_payments, promo_codes, promo_usage,
                   user_states, sent_invoices, loop, admin,
                   threads, banned, cursor>>

\* get_promo_code(code): the id of the promo with this code, NULL when there
\* is none (the code of promo i is written i)
get_promo_code(code) == IF code \in DOMAIN promo_codes THEN code ELSE NULL

\* callback_buy_with_promo: buy_promo:<plan id>
callback_buy_with_promo(user_id, pid) ==
    /\ pid \in DOMAIN plans
    /\ user_states' = [user_states EXCEPT ![user_id] = promo_session(pid)]
    /\ last' = [Ev("callback_buy_with_promo") EXCEPT
                    !.user = user_id, !.plan = pid, !.ok = TRUE]
    /\ UNCHANGED <<now, users, subscriptions, manual_payments, promo_codes,
                   promo_usage, sent_invoices, link_seq, loop, admin,
                   threads, banned, cursor>>

\* handle_promo_code_input_direct: the user types `code` while the session
\* is in mode promo_input_direct (one card payment method is configured)
handle_promo_code_input_direct(user_id, code) ==
    LET state == user_states[user_id]
        promo_id == get_promo_code(code)
        check == can_use_promo_code(promo_id, user_id)
        ev == [Ev("handle_promo_code_input_direct") EXCEPT
                    !.user = user_id, !.plan = state.plan_id]
    IN  /\ state.mode = "promo_input_direct"
        /\ UNCHANGED <<now, users, subscriptions, manual_payments, promo_codes,
                       promo_usage, sent_invoices, link_seq, loop, admin,
                       threads, banned, cursor>>
        /\ IF promo_id = NULL
           THEN /\ last' = [ev EXCEPT !.reason = "NotFound"]
                /\ UNCHANGED user_states
           ELSE IF ~check[1]
           THEN /\ last' = [ev EXCEPT !.reason = check[2], !.result = promo_id]
                /\ UNCHANGED user_states
           ELSE /\ user_states' =
                    [user_states EXCEPT ![user_id] =
                        [state EXCEPT
                            !.promo_id = promo_id,
                            !.final_price =
                                apply_promo_code(state.original_price,
                                                 promo_codes[promo_id]),
                            !.mode = "promo_applied_direct"]]
                /\ last' = [ev EXCEPT !.ok = TRUE, !.reason = check[2],
                                      !.result = promo_id]

\* callback_pay_with_promo_direct: pay_with_promo_direct:<plan id>; the
\* handler returns at once when the session holds no final price
callback_pay_with_promo_direct(user_id, plan_id, sent) ==
    LET state == user_states[user_id]
    IN  /\ state.final_price # NULL
        /\ process_card_payment(user_id, plan_id, state.final_price,
                                state.group_id, state.promo_id, sent)

\* process_manual_payment_start: the session of the manual payment replaces
\* the user's session; it keeps the price to pay and the promo id
process_manual_payment_start(user_id, pid, price_cents, promo_id) ==
    /\ user_states' =
        [user_states EXCEPT ![user_id] =
            [manual_session(pid, price_cents, promo_id) EXCEPT
                !.step = "show_instructions"]]
    /\ last' = [Ev("process_manual_payment_start") EXCEPT
                    !.user = user_id, !.plan = pid, !.ok = TRUE]
    /\ UNCHANGED <<now, users, subscriptions, manual_payments, promo_codes,
                   promo_usage, sent_invoices, link_seq, loop, admin,
                   threads, banned, cursor>>

\* callback_paymethod_promo_direct:
\* paymethod_promo_direct:<plan id>:<method id>:<promo id>; `mtype` is the type
\* of the chosen method.  The handler returns at once when the session holds
\* no final price.
callback_paymethod_promo_direct(user_id, plan_id, mtype, promo_id, sent) ==
    LET state == user_states[user_id]
    IN  /\ state.final_price # NULL
        /\ IF mtype = "card"
           THEN process_card_payment(user_id, plan_id, state.final_price,
                                     state.group_id, promo_id, sent)
           ELSE process_manual_payment_start(user_id, plan_id,
                                             state.final_price, promo_id)

\* callback_confirm_paid: confirm_paid:<plan id>; the session is rebuilt from
\* the amount and the promo id of the current one
callback_confirm_paid(user_id, pid) ==
    LET state == user_states[user_id]
        amount_cents == IF state.amount_cents = NULL THEN 0 ELSE state.amount_cents
    IN  /\ user_states' =
            [user_states EXCEPT ![user_id] =
                [manual_session(pid, amount_cents, state.promo_id) EXCEPT
                    !.step = "waiting_receipt"]]
        /\ last' = [Ev("callback_confirm_paid") EXCEPT
                        !.user = user_id, !.plan = pid, !.ok = TRUE]
        /\ UNCHANGED <<now, users, subscriptions, manual_payments, promo_codes,
                       promo_usage, sent_invoices, link_seq, loop, admin,
                       threads, banned, cursor>>

\* handle_receipt_photo: a photo sent while the session waits for the receipt
handle_receipt_photo(user_id) ==
    LET state == user_states[user_id]
    IN  /\ state.mode = "manual_payment"
        /\ state.step = "waiting_receipt"
        /\ user_states' =
            [user_states EXCEPT ![user_id] = [state EXCEPT !.step = "waiting_name"]]
        /\ last' = [Ev("handle_receipt_photo") EXCEPT
                        !.user = user_id, !.plan = state.plan_id, !.ok = TRUE]
        /\ UNCHANGED <<now, users, subscriptions, manual_payments, promo_codes,
                       promo_usage, sent_invoices, link_seq, loop, admin,
                       threads, banned, cursor>>

\* lines 1674-1682 and 2552-2560: the session a purchase button writes for
\* the plan at its full price, in the mode of its flow
plan_session(pid, mode) ==
    [NoSession EXCEPT !.mode = mode, !.plan_id = pid,
                      !.group_id = plans[pid].group_id,
                      !.original_price = plans[pid].price_cents]

\* callback_buy_full: buy_full:<plan id>, with several payment methods
\* configured: the session is written and the paymethod_new buttons are shown
callback_buy_full(user_id, plan_id) ==
    /\ plan_id \in DOMAIN plans
    /\ user_states' =
        [user_states EXCEPT ![user_id] = plan_session(plan_id, "new_subscription")]
    /\ last' = [Ev("callback_buy_full") EXCEPT
                    !.user = user_id, !.plan = plan_id, !.ok = TRUE]
    /\ UNCHANGED <<now, users, subscriptions, manual_payments, promo_codes,
                   promo_usage, sent_invoices, link_seq, loop, admin,
                   threads, banned, cursor>>

\* callback_buy_handler: buy_<type>:<plan id> for a payment at the full
\* price, with several payment methods configured: the session is written
\* and the paymethod buttons are shown
callback_buy_handler(user_id, pid) ==
    /\ pid \in DOMAIN plans
    /\ user_states' = [user_states EXCEPT ![user_id] = plan_session(pid, "no_promo")]
    /\ last' = [Ev("callback_buy_handler") EXCEPT
                    !.user = user_id, !.plan = pid, !.ok = TRUE]
    /\ UNCHANGED <<now, users, subscriptions, manual_payments, promo_codes,
                   promo_usage, sent_invoices, link_seq, loop, admin,
                   threads, banned, cursor>>

\* callback_paymethod_new: paymethod_new:<plan id>:<method id>; the handler
\* returns at once ('session expired') unless the session is in mode
\* new_subscription
callback_paymethod_new(user_id, pid, mtype, sent) ==
    LET state == user_states[user_id]
    IN  /\ state.mode = "new_subscription"
        /\ IF mtype = "card"
           THEN process_card_payment(user_id, pid, state.original_price,
                                     state.group_id, NULL, sent)
           ELSE process_manual_payment_start(user_id, pid,
                                             state.original_price, NULL)

\* callback_paymethod: paymethod:<plan id>:<method id>; the handler returns
\* at once when the user has no session ('session expired'), when the plan
\* is not found, and when the session holds no original_price (the KeyError
\* is caught and answered with an error alert)
callback_paymethod(user_id, pid, mtype, sent) ==
    LET state == user_states[user_id]
    IN  /\ state.mode # "none"
        /\ pid \in DOMAIN plans
        /\ state.original_price # NULL
        /\ IF mtype = "card"
           THEN process_card_payment(user_id, pid, state.original_price,
                                     plans[pid].group_id, NULL, sent)
           ELSE process_manual_payment_start(user_id, pid,
                                             state.original_price, NULL)

\* callback_paymethod_promo:
\* paymethod_promo:<plan id>:<method id>:<type>:<promo id>; the handler
\* returns at once ('session expired') when the session holds no final price
callback_paymethod_promo(user_id, pid, mtype, promo_id, sent) ==
    LET state == user_states[user_id]
    IN  /\ state.final_price # NULL
        /\ IF mtype = "card"
           THEN process_card_payment(user_id, pid, state.final_price,
                                     state.group_id, promo_id, sent)
           ELSE process_manual_payment_start(user_id, pid,
                                             state.final_price, promo_id)

\* callback_renew_plan: renew_plan:<plan id>, with several payment methods
\* configured.  The handler returns at once when the user has no subscription
\* row for the plan and when the row is already paid for the current month;
\* otherwise the session is written and the paymethod_renew buttons are shown
callback_renew_plan(user_id, plan_id) ==
    LET existing == check_existing_subscription(user_id, plan_id)
    IN  /\ existing.found
        /\ ~existing.paid
        /\ plan_id \in DOMAIN plans
        /\ user_states' =
            [user_states EXCEPT ![user_id] = plan_session(plan_id, "renewal")]
        /\ last' = [Ev("callback_renew_plan") EXCEPT
                        !.user = user_id, !.plan = plan_id, !.ok = TRUE]
        /\ UNCHANGED <<now, users, subscriptions, manual_payments, promo_codes,
                       promo_usage, sent_invoices, link_seq, loop, admin,
                       threads, banned, cursor>>

\* callback_paymethod_renew: paymethod_renew:<plan id>:<method id>; the
\* handler returns at once ('session expired') unless the session is in mode
\* renewal
callback_paymethod_renew(user_id, pid, mtype, sent) ==
    LET state == user_states[user_id]
    IN  /\ state.mode = "renewal"
        /\ IF mtype = "card"
           THEN process_card_payment(user_id, pid, state.original_price,
                                     state.group_id, NULL, sent)
           ELSE process_manual_payment_start(user_id, pid,
                                             state.original_price, NULL)

\* callback_cancel_payment: the session is dropped and the main menu is sent
callback_cancel_payment(user_id) ==
    /\ user_states' = pop_state(user_id)
    /\ last' = [Ev("callback_cancel_payment") EXCEPT !.user = user_id]
    /\ UNCHANGED <<now, users, subscriptions, manual_payments, promo_codes,
                   promo_usage, sent_invoices, link_seq, loop, admin,
                   threads, banned, cursor>>

\* ------------------------------------------------------------------ sweeps
\* a WHERE clause that selects every active row
expired_unpaid_any_active(row) == row.active = 1

\* a WHERE clause without the condition on end_ts
expired_unpaid_stale_only(row) ==
    /\ row.active = 1
    /\ \/ row.current_period_month # get_current_period[1]
       \/ row.current_period_year # get_current_period[2]
       \/ row.part_paid # "full"

\* lines 5413-5419: the WHERE clause of the removal sweep
expired_unpaid(row) ==
    /\ row.active = 1
    /\ row.end_ts < now
    /\ \/ row.current_period_month # get_current_period[1]
       \/ row.current_period_year # get_current_period[2]
       \/ row.part_paid # "full"

\* lines 5407-5424: the rows the sweep fetches (JOIN plans, JOIN users)
expired_subs ==
    {i \in 1 .. Len(subscriptions) :
        /\ expired_unpaid(subscriptions[i])
        /\ subscriptions[i].plan_id \in DOMAIN plans
        /\ users[subscriptions[i].user_id].registered}

\* an UPDATE that clears the active flag only
removed_row_inactive_only(row) == [row EXCEPT !.active = 0]

\* lines 5455-5460: the UPDATE that deactivates a swept row
removed_row(row) == [row EXCEPT !.active = 0, !.removed = 1]

\* a sweep that leaves a row unmarked when its ban fails
remove_unpaid_users_stops_on_error(op, ban_failed, msg_failed) ==
    LET rows == expired_subs
        tried == {i \in rows : subscriptions[i].group_id # NULL}
        marked == rows \ ban_failed
    IN  /\ subscriptions' =
            [i \in 1 .. Len(subscriptions) |->
                IF i \in marked
                THEN removed_row(subscriptions[i])
                ELSE subscriptions[i]]
        /\ last' =
            IF rows = {} THEN last
            ELSE [Ev(op) EXCEPT
                !.ok = TRUE, !.swept = rows, !.banned = tried,
                !.ban_ok = tried \ ban_failed,
                !.notified = marked, !.notify_ok = marked \ msg_failed,
                !.msgs = {Msg(subscriptions[i].user_id, "removed", NULL) :
                            i \in marked \ msg_failed}]
        /\ UNCHANGED <<now, users, manual_payments, promo_codes, promo_usage,
                       user_states, sent_invoices, link_seq, loop, admin,
                       threads, banned, cursor>>

\* remove_unpaid_users(): the platform fails to ban the users of the rows of
\* ban_failed and to message the users of the rows of msg_failed.  For each
\* fetched row: the ban is attempted when the row has a group, the row is
\* marked, the notification is attempted.
remove_unpaid_users(op, ban_failed, msg_failed) ==
    LET rows == expired_subs
        tried == {i \in rows : subscriptions[i].group_id # NULL}
    IN  /\ subscriptions' =
            [i \in 1 .. Len(subscriptions) |->
                IF i \in rows
                THEN removed_row(subscriptions[i])
                ELSE subscriptions[i]]
        /\ last' =
            IF rows = {} THEN last
            ELSE [Ev(op) EXCEPT
                !.ok = TRUE, !.swept = rows, !.banned = tried,
                !.ban_ok = tried \ ban_failed,
                !.notified = rows, !.notify_ok = rows \ msg_failed,
                !.msgs = {Msg(subscriptions[i].user_id, "removed", NULL) :
                            i \in rows \ msg_failed}]
        /\ UNCHANGED <<now, users, manual_payments, promo_codes, promo_usage,
                       user_states, sent_invoices, link_seq, loop, admin,
                       threads, banned, cursor>>

\* a query without the 20-hour condition on the marker
unpaid_to_remind_no_cooldown ==
    {i \in 1 .. Len(subscriptions) :
        /\ subscriptions[i].active = 1
        /\ ~ ( /\ subscriptions[i].current_period_month = get_current_period[1]
               /\ subscriptions[i].current_period_year = get_current_period[2]
               /\ subscriptions[i].part_paid = "full" )
        /\ subscriptions[i].plan_id \in DOMAIN plans
        /\ users[subscriptions[i].user_id].registered}

\* lines 5594-5615: the rows the renewal reminder fetches
unpaid_to_remind ==
    {i \in 1 .. Len(subscriptions) :
        /\ subscriptions[i].active = 1
        /\ ~ ( /\ subscriptions[i].current_period_month = get_current_period[1]
               /\ subscriptions[i].current_period_year = get_current_period[2]
               /\ subscriptions[i].part_paid = "full" )
        /\ \/ subscriptions[i].last_notification_ts = NULL
           \/ subscriptions[i].last_notification_ts < now - 20 * 3600
        /\ subscriptions[i].plan_id \in DOMAIN plans
        /\ users[subscriptions[i].user_id].registered}

\* send_payment_notifications(): the platform fails to message the users of
\* the rows of msg_failed; the throttle marker is written after a send that
\* succeeded
send_payment_notifications(op, msg_failed) ==
    LET rows == unpaid_to_remind
        sent == rows \ msg_failed
    IN  /\ subscriptions' =
            [i \in 1 .. Len(subscriptions) |->
                IF i \in sent
                THEN [subscriptions[i] EXCEPT !.last_notification_ts = now]
                ELSE subscriptions[i]]
        /\ last' =
            IF rows = {} THEN last
            ELSE [Ev(op) EXCEPT
                !.ok = TRUE, !.notified = rows, !.notify_ok = sent,
                !.msgs = {Msg(subscriptions[i].user_id, "renewal_reminder", NULL) :
                            i \in sent},
                !.reminded = [i \in 1 .. MaxSubs |->
                                IF i \in sent THEN now ELSE last.reminded[i]]]
        /\ UNCHANGED <<now, users, manual_payments, promo_codes, promo_usage,
                       user_states, sent_invoices, link_seq, loop, admin,
                       threads, banned, cursor>>

\* a query without the condition on the paid period
deadline_to_remind_any_period ==
    {i \in 1 .. Len(subscriptions) :
        /\ subscriptions[i].active = 1
        /\ now <= subscriptions[i].end_ts
        /\ subscriptions[i].end_ts <= now + 5 * 24 * 3600
        /\ subscriptions[i].plan_id \in DOMAIN plans
        /\ users[subscriptions[i].user_id].registered}

\* lines 5517-5531: the rows the deadline reminder fetches
deadline_to_remind ==
    {i \in 1 .. Len(subscriptions) :
        /\ subscriptions[i].active = 1
        /\ now <= subscriptions[i].end_ts
        /\ subscriptions[i].end_ts <= now + 5 * 24 * 3600
        /\ subscriptions[i].current_period_month = get_current_period[1]
        /\ subscriptions[i].current_period_year = get_current_period[2]
        /\ subscriptions[i].part_paid = "full"
        /\ subscriptions[i].plan_id \in DOMAIN plans
        /\ users[subscriptions[i].user_id].registered}

\* send_deadline_notifications(): the platform fails to message the users of
\* the rows of msg_failed; nothing is written to the database
send_deadline_notifications(op, msg_failed) ==
    LET rows == deadline_to_remind
        sent == rows \ msg_failed
    IN  /\ last' =
            IF rows = {} THEN last
            ELSE [Ev(op) EXCEPT
                !.ok = TRUE, !.notified = rows, !.notify_ok = sent,
                !.msgs = {Msg(subscriptions[i].user_id, "deadline_reminder", NULL) :
                            i \in sent}]
        /\ UNCHANGED <<now, users, subscriptions, manual_payments, promo_codes,
                       promo_usage, user_states, sent_invoices, link_seq, loop,
                       admin,
                       threads, banned, cursor>>

\* --------------------------------------------------------- the loop thread
\* a loop without try/except: an exception ends the thread
on_exception_unguarded == "terminated"

\* lines 5367 and 5395: the body of `while True` is inside try / except
\* Exception, so an exception raised anywhere in it moves the thread to the
\* except clause
on_exception_in_loop == "except"

\* an exception is raised in the body of the loop: by now_local(),
\* get_current_period() or logging, or by a run that lets one escape
loop_raise ==
    /\ loop.pc = "evaluate"
    /\ loop.logged < MaxLoopErrors
    /\ loop' = [loop EXCEPT !.pc = on_exception_in_loop]
    /\ UNCHANGED <<now, users, subscriptions, manual_payments, promo_codes,
                   promo_usage, user_states, sent_invoices, link_seq, last,
                   admin,
                   threads, banned, cursor>>

\* lines 5395-5397: the exception is logged, the thread sleeps a minute and
\* goes back to the top of the body
loop_except ==
    /\ loop.pc = "except"
    /\ loop' = [pc |-> "evaluate", logged |-> loop.logged + 1]
    /\ UNCHANGED <<now, users, subscriptions, manual_payments, promo_codes,
                   promo_usage, user_states, sent_invoices, link_seq, last,
                   admin,
                   threads, banned, cursor>>

\* one iteration of check_expirations_loop, by the running thread
check_expirations_loop(ban_failed, msg_failed) ==
    LET day == local_day(now)
        hour == local_hour(now)
        minute == local_minute(now)
    IN  /\ loop.pc = "evaluate"
        /\ IF day = 6 /\ hour = 0 /\ minute = 1
           THEN remove_unpaid_users("loop_remove_unpaid", ban_failed, msg_failed)
           ELSE IF day = 1 /\ hour = 10 /\ minute = 0
           THEN ban_failed = {}
                /\ send_payment_notifications("loop_payment_notifications",
                                              msg_failed)
           ELSE IF day = 4 /\ hour = 18 /\ minute = 0
           THEN ban_failed = {}
                /\ send_deadline_notifications("loop_deadline_notifications",
                                               msg_failed)
           ELSE FALSE

\* /run_remove_unpaid
cmd_run_remove_unpaid(caller, ban_failed, msg_failed) ==
    /\ caller \in ADMIN_IDS
    /\ remove_unpaid_users("cmd_run_remove_unpaid", ban_failed, msg_failed)

\* /run_payment_notifications
cmd_run_payment_notifications(caller, msg_failed) ==
    /\ caller \in ADMIN_IDS
    /\ send_payment_notifications("cmd_run_payment_notifications", msg_failed)

\* /run_deadline_notifications
cmd_run_deadline_notifications(caller, msg_failed) ==
    /\ caller \in ADMIN_IDS
    /\ send_deadline_notifications("cmd_run_deadline_notifications", msg_failed)

\* ---------------------------------------------------------------- threads
\* line 60: TeleBot(threaded=True) hands every update to a pool of worker
\* threads, so two handlers run at the same time; line 5507: the loop (and
\* the sweep it calls) runs in a thread of its own.  A thread is preempted
\* between statements: a step below is one database statement with its
\* commit or one platform call, together with the local computation next to
\* it.  A SELECT of these steps includes its fetch; the steps with `cursor`
\* in their name separate the two.
Workers == {"worker1", "worker2"}
ThreadIds == Workers \cup {"loop"}

\* a thread that runs no handler; the fields are the local variables of the
\* handlers: the update's sender, the payer, the plan, the session group and
\* the ticket, the review's
\* is_approve, activate_subscription's existing_sub (its id and the branch
\* chosen from the fetched columns) and invite_link, the sweep's expired_subs
\* (the fetched rows still to process), whether the thread's activation has
\* written, and the thread whose query the latest fetch answered
Idle ==
    [pc |-> "idle", op |-> "none", caller |-> 0, user |-> 0, plan |-> 0,
     group |-> NULL, ticket |-> 0, is_approve |-> FALSE, existing_sub |-> 0, did |-> "none",
     invite_link |-> NULL, expired_subs |-> << >>, activated |-> FALSE,
     fetched_from |-> "none"]

NoThreads == [t \in ThreadIds |-> Idle]

\* lines 72-73: the cursor has executed nothing
NoCursor == [owner |-> "none", rows |-> << >>]

\* the ids of a set of rows in the order of the table
RECURSIVE in_id_order(_)
in_id_order(ids) ==
    IF ids = {} THEN << >>
    ELSE LET first == CHOOSE i \in ids : \A j \in ids : i <= j
         IN  <<first>> \o in_id_order(ids \ {first})

\* lines 488-502: the head of activate_subscription, the plan lookup and the
\* choice of the group; "" when the activation goes on
activation_refused(plan_id, group_id) ==
    IF plan_id \notin DOMAIN plans THEN "PlanNotFound"
    ELSE IF plans[plan_id].group_id = NULL /\ group_id = NULL
    THEN "NoGroupConfigured"
    ELSE ""

\* the shared cursor after thread t has executed a statement and, for a
\* SELECT, fetched its rows
executed(t) == [owner |-> t, rows |-> << >>]

\* got_payment, lines 3321-3342 with 488-502: a worker takes the
\* successful_payment update of a sent invoice, parses the payload, reads
\* the payer's session and enters activate_subscription; when the activation
\* is refused the error message is sent and the handler returns
got_payment_enter(t, payload) ==
    LET state == user_states[payload.user_id]
        refused == activation_refused(payload.plan_id, state.group_id)
    IN  /\ t \in Workers
        /\ threads[t].pc = "idle"
        /\ payload \in sent_invoices
        /\ sent_invoices' = sent_invoices \ {payload}
        /\ threads' =
            [threads EXCEPT ![t] =
                [Idle EXCEPT
                    !.op = "got_payment", !.caller = payload.user_id,
                    !.user = payload.user_id,
                    !.plan = payload.plan_id, !.group = state.group_id,
                    !.pc = IF refused = "" THEN "unban" ELSE "idle"]]
        /\ cursor' = executed(t)
        /\ UNCHANGED <<now, users, subscriptions, manual_payments, promo_codes,
                       promo_usage, user_states, link_seq, last, loop, admin,
                       banned>>

\* handle_payment_review, lines 4848-4876 and 4904 with 488-502: a worker
\* takes the approve_payment / reject_payment button, selects the ticket with
\* status 'pending' (the handler returns when no row is found) and, for an
\* approval, enters activate_subscription
handle_payment_review_enter(t, caller, payment_id, is_approve) ==
    /\ t \in Workers
    /\ threads[t].pc = "idle"
    /\ caller \in ADMIN_IDS
    /\ pending_payment(payment_id)
    /\ LET payment == manual_payments[payment_id]
           refused == activation_refused(payment.plan_id, NULL)
       IN  threads' =
            [threads EXCEPT ![t] =
                [Idle EXCEPT
                    !.op = "handle_payment_review", !.caller = caller,
                    !.user = payment.user_id,
                    !.plan = payment.plan_id, !.ticket = payment_id,
                    !.is_approve = is_approve,
                    !.pc = IF ~is_approve THEN "finish"
                           ELSE IF refused = "" THEN "unban" ELSE "idle"]]
    /\ cursor' = executed(t)
    /\ UNCHANGED <<now, users, subscriptions, manual_payments, promo_codes,
                   promo_usage, user_states, sent_invoices, link_seq, last,
                   loop, admin, banned>>

\* lines 504-512: bot.unban_chat_member (its failure is logged and ignored)
activate_unban(t, unbanned) ==
    /\ threads[t].pc = "unban"
    /\ banned' = IF unbanned THEN banned \ {threads[t].user} ELSE banned
    /\ threads' = [threads EXCEPT ![t].pc = "existing"]
    /\ UNCHANGED <<now, users, subscriptions, manual_payments, promo_codes,
                   promo_usage, user_states, sent_invoices, link_seq, last,
                   loop, admin, cursor>>

\* lines 514-525 and 541-560: the SELECT of the active row and the branch
\* the fetched columns choose
activate_select_existing(t) ==
    LET sub_id == existing_sub(threads[t].user, threads[t].plan)
    IN  /\ threads[t].pc = "existing"
        /\ threads' =
            [threads EXCEPT
                ![t].existing_sub = sub_id,
                ![t].did = IF sub_id = 0 THEN "insert"
                           ELSE IF already_paid(subscriptions[sub_id])
                           THEN "refresh" ELSE "renew",
                ![t].pc = "link"]
        /\ cursor' = executed(t)
        /\ UNCHANGED <<now, users, subscriptions, manual_payments, promo_codes,
                       promo_usage, user_states, sent_invoices, link_seq, last,
                       loop, admin, banned>>

\* lines 539-541: create_chat_invite_link_one_time
activate_create_link(t, issued) ==
    /\ threads[t].pc = "link"
    /\ issued => link_seq < MaxLinks
    /\ link_seq' = IF issued THEN link_seq + 1 ELSE link_seq
    /\ threads' =
        [threads EXCEPT
            ![t].invite_link = create_chat_invite_link_one_time(issued),
            ![t].pc = "write"]
    /\ UNCHANGED <<now, users, subscriptions, manual_payments, promo_codes,
                   promo_usage, user_states, sent_invoices, last, loop, admin,
                   banned, cursor>>

\* lines 547-616: the unpacking of the fetched row (a row that is not six
\* columns wide raises ValueError and ends the handler), the UPDATE or the
\* INSERT of the chosen branch and the commit; the UPDATEs name the row by
\* the id fetched earlier
activate_write(t) ==
    LET th == threads[t]
        sub_id == th.existing_sub
        target_group_id ==
            IF plans[th.plan].group_id # NULL THEN plans[th.plan].group_id
            ELSE th.group
    IN  /\ th.pc = "write"
        /\ th.did = "insert" => Len(subscriptions) < MaxSubs
        /\ subscriptions' =
            IF th.did = "error" THEN subscriptions
            ELSE IF th.did = "refresh"
            THEN [subscriptions EXCEPT
                    ![sub_id].invite_link = th.invite_link,
                    ![sub_id].last_notification_ts = NULL]
            ELSE IF th.did = "renew"
            THEN [subscriptions EXCEPT
                    ![sub_id] = renewed_row(subscriptions[sub_id], th.invite_link)]
            ELSE Append(subscriptions,
                        new_row(th.user, th.plan, target_group_id, th.invite_link))
        /\ threads' =
            IF th.did = "error" THEN [threads EXCEPT ![t].pc = "idle"]
            ELSE [threads EXCEPT ![t].activated = TRUE, ![t].pc = "finish"]
        /\ cursor' = IF th.did = "error" THEN cursor ELSE executed(t)
        /\ UNCHANGED <<now, users, manual_payments, promo_codes, promo_usage,
                       user_states, sent_invoices, link_seq, last, loop, admin,
                       banned>>

\* got_payment, lines 3344-3400: the link is sent to the payer and the
\* session is dropped (the invoice carries no promo code and the payer no
\* referrer)
got_payment_leave(t) ==
    /\ threads[t].pc = "finish"
    /\ threads[t].op = "got_payment"
    /\ user_states' = pop_state(threads[t].user)
    /\ threads' = [threads EXCEPT ![t].pc = "idle"]
    /\ cursor' = executed(t)
    /\ UNCHANGED <<now, users, subscriptions, manual_payments, promo_codes,
                   promo_usage, sent_invoices, link_seq, last, loop, admin,
                   banned>>

\* handle_payment_review, lines 4877-4929: the UPDATE of the ticket (by id
\* alone) to 'approved' after the activation, or to 'rejected', and the
\* messages
handle_payment_review_leave(t) ==
    LET th == threads[t]
    IN  /\ th.pc = "finish"
        /\ th.op = "handle_payment_review"
        /\ manual_payments' =
            [manual_payments EXCEPT
                ![th.ticket].status =
                    IF th.is_approve THEN "approved" ELSE "rejected",
                ![th.ticket].admin_id = th.caller]
        /\ threads' = [threads EXCEPT ![t].pc = "idle"]
        /\ cursor' = executed(t)
        /\ UNCHANGED <<now, users, subscriptions, promo_codes, promo_usage,
                       user_states, sent_invoices, link_seq, last, loop, admin,
                       banned>>

\* remove_unpaid_users, lines 5402-5426: the loop thread, at its trigger of
\* the 6th at 00:01, selects the rows to remove and fetches them all
remove_unpaid_users_select(t) ==
    /\ t = "loop"
    /\ threads[t].pc = "idle"
    /\ local_day(now) = 6 /\ local_hour(now) = 0 /\ local_minute(now) = 1
    /\ expired_subs # {}
    /\ threads' =
        [threads EXCEPT ![t] =
            [Idle EXCEPT !.op = "remove_unpaid_users",
                         !.expired_subs = in_id_order(expired_subs),
                         !.pc = "ban"]]
    /\ cursor' = executed(t)
    /\ UNCHANGED <<now, users, subscriptions, manual_payments, promo_codes,
                   promo_usage, user_states, sent_invoices, link_seq, last,
                   loop, admin, banned>>

\* lines 5437-5452: bot.ban_chat_member for the first fetched row, when the
\* row has a group (a failure is logged and ignored), and the pause of half
\* a second; a row fetched from another thread's query names no member of a
\* group in its second and third columns, and the call fails
remove_unpaid_users_ban(t, ban_ok) ==
    LET sub_id == Head(threads[t].expired_subs)
    IN  /\ threads[t].pc = "ban"
        /\ banned' =
            IF /\ threads[t].fetched_from \in {"none", t}
               /\ subscriptions[sub_id].group_id # NULL
               /\ ban_ok
            THEN banned \cup {subscriptions[sub_id].user_id}
            ELSE banned
        /\ threads' = [threads EXCEPT ![t].pc = "mark"]
        /\ UNCHANGED <<now, users, subscriptions, manual_payments, promo_codes,
                       promo_usage, user_states, sent_invoices, link_seq, last,
                       loop, admin, cursor>>

\* lines 5454-5475: the UPDATE of the row (by the id fetched earlier), the
\* commit and the message to the user; the loop goes on with the next row
remove_unpaid_users_mark(t) ==
    LET sub_id == Head(threads[t].expired_subs)
        rest == Tail(threads[t].expired_subs)
    IN  /\ threads[t].pc = "mark"
        /\ subscriptions' =
            [subscriptions EXCEPT ![sub_id] = removed_row(subscriptions[sub_id])]
        /\ threads' =
            [threads EXCEPT ![t].expired_subs = rest,
                            ![t].pc = IF rest = << >> THEN "idle" ELSE "ban"]
        /\ cursor' = executed(t)
        /\ UNCHANGED <<now, users, manual_payments, promo_codes, promo_usage,
                       user_states, sent_invoices, link_seq, last, loop, admin,
                       banned>>

\* ----------------------------------------------------------- the cursor
\* lines 72-73: every statement of every thread goes through the one
\* module-level cursor.  cursor.execute replaces the cursor's result set and
\* cursor.fetchone / cursor.fetchall read from whatever result set the cursor
\* holds; the two are separate calls, and a thread is preempted between
\* them.  A row of a result set is kept as the query it answers, the id in
\* its first column and, for the active row of a user and plan, whether its
\* columns say the current period is paid.
plan_rows(plan_id) ==
    IF plan_id \in DOMAIN plans
    THEN <<[kind |-> "plan", id |-> plan_id, paid |-> FALSE]>>
    ELSE << >>

existing_rows(user_id, plan_id) ==
    LET sub_id == existing_sub(user_id, plan_id)
    IN  IF sub_id = 0 THEN << >>
        ELSE <<[kind |-> "existing", id |-> sub_id,
                paid |-> already_paid(subscriptions[sub_id])]>>

expired_rows ==
    LET ids == in_id_order(expired_subs)
    IN  [k \in 1 .. Len(ids) |->
            [kind |-> "expired", id |-> ids[k], paid |-> FALSE]]

\* cursor.fetchone(): the result set the cursor holds after its next row,
\* if it has one, has been taken
fetchone == IF cursor.rows = << >> THEN cursor
            ELSE [cursor EXCEPT !.rows = Tail(cursor.rows)]

\* got_payment, lines 3321-3338: a worker takes the successful_payment
\* update of a sent invoice, parses the payload, reads the payer's session
\* and calls activate_subscription
got_payment_call(t, payload) ==
    /\ t \in Workers
    /\ threads[t].pc = "idle"
    /\ payload \in sent_invoices
    /\ sent_invoices' = sent_invoices \ {payload}
    /\ threads' =
        [threads EXCEPT ![t] =
            [Idle EXCEPT
                !.op = "got_payment", !.caller = payload.user_id,
                !.user = payload.user_id, !.plan = payload.plan_id,
                !.group = user_states[payload.user_id].group_id,
                !.pc = "plan"]]
    /\ UNCHANGED <<now, users, subscriptions, manual_payments, promo_codes,
                   promo_usage, user_states, link_seq, last, loop, admin,
                   banned, cursor>>

\* lines 488-490: cursor.execute of the plan's SELECT
activate_execute_plan(t) ==
    /\ threads[t].pc = "plan"
    /\ cursor' = [owner |-> t, rows |-> plan_rows(threads[t].plan)]
    /\ threads' = [threads EXCEPT ![t].pc = "fetch_plan"]
    /\ UNCHANGED <<now, users, subscriptions, manual_payments, promo_codes,
                   promo_usage, user_states, sent_invoices, link_seq, last,
                   loop, admin, banned>>

\* lines 491-502: plan = cursor.fetchone().  No row: "plan not found" is
\* returned and got_payment sends the error.  A row that is not a plan's
\* (six columns, not three): the unpacking raises ValueError, which nothing
\* in got_payment catches.  Otherwise the group is chosen.
activate_fetch_plan(t) ==
    LET plan == Head(cursor.rows)
        refused ==
            IF cursor.rows = << >> THEN "PlanNotFound"
            ELSE IF plan.kind # "plan" THEN "ValueError"
            ELSE activation_refused(plan.id, threads[t].group)
    IN  /\ threads[t].pc = "fetch_plan"
        /\ cursor' = fetchone
        /\ threads' =
            [threads EXCEPT
                ![t].fetched_from = cursor.owner,
                ![t].pc = IF refused = "" THEN "unban" ELSE "idle"]
        /\ UNCHANGED <<now, users, subscriptions, manual_payments, promo_codes,
                       promo_usage, user_states, sent_invoices, link_seq, last,
                       loop, admin, banned>>

\* lines 514-523: cursor.execute of the SELECT of the active row
activate_execute_existing(t) ==
    /\ threads[t].pc = "existing"
    /\ cursor' =
        [owner |-> t, rows |-> existing_rows(threads[t].user, threads[t].plan)]
    /\ threads' = [threads EXCEPT ![t].pc = "fetch_existing"]
    /\ UNCHANGED <<now, users, subscriptions, manual_payments, promo_codes,
                   promo_usage, user_states, sent_invoices, link_seq, last,
                   loop, admin, banned>>

\* lines 525 and 547-560: existing_sub = cursor.fetchone() and the branch its
\* columns choose.  No row: the INSERT.  A row of the sweep's query is six
\* columns wide as well: its first column (a subscription's id) becomes
\* sub_id, its third (the group) is compared with the current month, and the
\* renewal UPDATE is chosen.  A plan's row cannot be unpacked.
activate_fetch_existing(t) ==
    LET none == cursor.rows = << >>
        row == Head(cursor.rows)
    IN  /\ threads[t].pc = "fetch_existing"
        /\ cursor' = fetchone
        /\ threads' =
            [threads EXCEPT
                ![t].fetched_from = cursor.owner,
                ![t].existing_sub =
                    IF none \/ row.kind = "plan" THEN 0 ELSE row.id,
                ![t].did = IF none THEN "insert"
                           ELSE IF row.kind = "plan" THEN "error"
                           ELSE IF row.paid THEN "refresh" ELSE "renew",
                ![t].pc = "link"]
        /\ UNCHANGED <<now, users, subscriptions, manual_payments, promo_codes,
                       promo_usage, user_states, sent_invoices, link_seq, last,
                       loop, admin, banned>>

\* remove_unpaid_users, lines 5402-5422: the loop thread, at its trigger of
\* the 6th at 00:01, executes the SELECT of the rows to remove
remove_unpaid_users_execute(t) ==
    /\ t = "loop"
    /\ threads[t].pc = "idle"
    /\ threads[t].op = "none"
    /\ local_day(now) = 6 /\ local_hour(now) = 0 /\ local_minute(now) = 1
    /\ cursor' = [owner |-> t, rows |-> expired_rows]
    /\ threads' =
        [threads EXCEPT ![t] =
            [Idle EXCEPT !.op = "remove_unpaid_users", !.pc = "fetchall"]]
    /\ UNCHANGED <<now, users, subscriptions, manual_payments, promo_codes,
                   promo_usage, user_states, sent_invoices, link_seq, last,
                   loop, admin, banned>>

\* lines 5424-5435: expired_subs = cursor.fetchall().  No row: the sweep
\* returns.  Rows of the active-row query are six columns wide and are
\* processed as rows to remove, by the id in their first column; a plan's
\* row cannot be unpacked, and the sweep's handler logs the error.
remove_unpaid_users_fetchall(t) ==
    LET rows == cursor.rows
        usable == rows # << >> /\ rows[1].kind # "plan"
    IN  /\ threads[t].pc = "fetchall"
        /\ cursor' = [cursor EXCEPT !.rows = << >>]
        /\ threads' =
            [threads EXCEPT
                ![t].fetched_from = cursor.owner,
                ![t].expired_subs =
                    IF usable THEN [k \in 1 .. Len(rows) |-> rows[k].id]
                    ELSE << >>,
                ![t].pc = IF usable THEN "ban" ELSE "idle"]
        /\ UNCHANGED <<now, users, subscriptions, manual_payments, promo_codes,
                       promo_usage, user_states, sent_invoices, link_seq, last,
                       loop, admin, banned>>

\* ---------------------------------------------------------- specification
NoUser == [registered |-> FALSE, referred_by |-> NULL, cashback_cents |-> 0]

Init ==
    /\ now = timestamp(Year0, 12, 20, 12, 0, 0)
    /\ users = [u \in Users |-> NoUser]
    /\ subscriptions = << >>
    /\ manual_payments = << >>
    /\ promo_codes = << >>
    /\ promo_usage = << >>
    /\ user_states = [u \in Users |-> NoSession]
    /\ sent_invoices = {}
    /\ link_seq = 0
    /\ last = NoEvent
    /\ loop = LoopStart
    /\ threads = NoThreads
    /\ banned = {}
    /\ cursor = NoCursor
    /\ admin = NoDialogue

\* the users who have started the bot: the platform delivers a user's
\* messages and button presses only after the user's /start
Started == {u \in Users : users[u].registered}

\* the payloads of the invoices callback_paymethod_new has just sent for the
\* plans at their prices, without a promo code
Payloads ==
    {[plan_id |-> p, user_id |-> u, promo_id |-> 0,
      amount_cents |-> plans[p].price_cents, created_ts |-> now,
      period_month |-> get_current_period[1],
      period_year |-> get_current_period[2]] :
        u \in Started, p \in DOMAIN plans}

\* a plan id of no row of the plans table: the plan of an invoice that was
\* deleted after the invoice was sent
DeletedPlan == Cardinality(DOMAIN plans) + 1

\* the payloads of invoices sent for a plan that has been deleted since
PayloadsOfDeletedPlan ==
    {[plan_id |-> DeletedPlan, user_id |-> u, promo_id |-> 0,
      amount_cents |-> plans[1].price_cents, created_ts |-> now,
      period_month |-> get_current_period[1],
      period_year |-> get_current_period[2]] :
        u \in Started}

\* The purchase dialogues are inputs: the gateway confirms the payment of an
\* invoice of Payloads, a ticket is submitted from a manual-payment session,
\* and the payer's session at payment time holds the group of some plan or
\* no group.
Next ==
    \/ \E t \in Instants : Tick(t)
    \/ \E u \in Users : cmd_start(u, NULL)
    \/ \E u \in Started, payload \in Payloads \cup PayloadsOfDeletedPlan,
          issued \in BOOLEAN,
          g \in {NULL} \cup {plans[p].group_id : p \in DOMAIN plans} :
            got_payment(u, payload, g, issued)
    \/ \E u \in Started, p \in DOMAIN plans :
            handle_full_name(u, manual_session(p, plans[p].price_cents, NULL))
    \/ \E c \in Callers, id \in 1 .. MaxTickets, approve \in BOOLEAN,
          issued \in BOOLEAN :
            handle_payment_review(c, id, approve, issued)
    \/ \E c \in Started \cup ADMIN_IDS \cup {Stranger}, id \in 1 .. MaxSubs,
          answer \in ChatAnswers, issued \in BOOLEAN :
            callback_new_link(c, id, is_bot_admin_in_chat(answer), issued)
    \/ \E bf \in SUBSET expired_subs, mf \in SUBSET expired_subs :
            check_expirations_loop(bf, mf)
    \/ \E c \in Callers, bf \in SUBSET expired_subs, mf \in SUBSET expired_subs :
            cmd_run_remove_unpaid(c, bf, mf)

Spec == Init /\ [][Next]_vars

\* Activations over the calendar: the bot is started on an existing database
\* at the first or the last second of any day, and invoices are paid.
InitCal ==
    /\ now \in CalInstants
    /\ users = [u \in Users |-> [NoUser EXCEPT !.registered = TRUE]]
    /\ subscriptions = << >>
    /\ manual_payments = << >>
    /\ promo_codes = << >>
    /\ promo_usage = << >>
    /\ user_states = [u \in Users |-> NoSession]
    /\ sent_invoices = {}
    /\ link_seq = 0
    /\ last = NoEvent
    /\ loop = LoopStart
    /\ threads = NoThreads
    /\ banned = {}
    /\ cursor = NoCursor
    /\ admin = NoDialogue

NextCal ==
    \E u \in Started, payload \in Payloads, issued \in BOOLEAN :
        got_payment(u, payload, NULL, issued)

SpecCal == InitCal /\ [][NextCal]_vars

\* the two instants of the promo specification and the expiry between them
PromoInstants ==
    { timestamp(Year0, 12, 20, 12, 0, 0), timestamp(Year0 + 1, 1, 3, 12, 0, 0) }

PromoExpiry == timestamp(Year0, 12, 25, 0, 0, 0)

\* Purchases with a promo code: the bot is started on a database that holds
\* one promo code (10 percent), whatever its flag, counter, cap and expiry,
\* used or not by the user.
InitPromo ==
    /\ now = timestamp(Year0, 12, 20, 12, 0, 0)
    /\ users = [u \in Users |-> [NoUser EXCEPT !.registered = TRUE]]
    /\ subscriptions = << >>
    /\ manual_payments = << >>
    /\ \E is_active \in {0, 1}, used_count \in {0, 1},
          max_uses \in {NULL, 1, 2}, expires_ts \in {NULL, PromoExpiry} :
            promo_codes =
                <<[discount_percent |-> 10, discount_fixed_cents |-> NULL,
                   is_active |-> is_active, used_count |-> used_count,
                   max_uses |-> max_uses, expires_ts |-> expires_ts]>>
    /\ promo_usage \in {<< >>, <<[promo_id |-> 1, user_id |-> 1]>>}
    /\ user_states = [u \in Users |-> NoSession]
    /\ sent_invoices = {}
    /\ link_seq = 0
    /\ last = NoEvent
    /\ loop = LoopStart
    /\ threads = NoThreads
    /\ banned = {}
    /\ cursor = NoCursor
    /\ admin = NoDialogue

NextPromo ==
    \/ \E t \in PromoInstants : Tick(t)
    \/ \E u \in Started, p \in DOMAIN plans : callback_buy_with_promo(u, p)
    \/ \E u \in Started, code \in {1, 2} : handle_promo_code_input_direct(u, code)
    \/ \E u \in Started, p \in DOMAIN plans, sent \in BOOLEAN :
            callback_pay_with_promo_direct(u, p, sent)
    \/ \E u \in Started, payload \in sent_invoices, issued \in BOOLEAN :
            got_payment(u, payload, user_states[u].group_id, issued)

SpecPromo == InitPromo /\ [][NextPromo]_vars

\* Checkouts with a promo code, by card or by manual payment: the bot is
\* started on a database that holds one usable promo code (10 percent, at
\* most two uses, no expiry) nobody has used yet.
InitCheckout ==
    /\ now = timestamp(Year0, 12, 20, 12, 0, 0)
    /\ users = [u \in Users |-> [NoUser EXCEPT !.registered = TRUE]]
    /\ subscriptions = << >>
    /\ manual_payments = << >>
    /\ promo_codes =
            <<[discount_percent |-> 10, discount_fixed_cents |-> 0,
               is_active |-> 1, used_count |-> 0, max_uses |-> 2,
               expires_ts |-> NULL]>>
    /\ promo_usage = << >>
    /\ user_states = [u \in Users |-> NoSession]
    /\ sent_invoices = {}
    /\ link_seq = 0
    /\ last = NoEvent
    /\ loop = LoopStart
    /\ threads = NoThreads
    /\ banned = {}
    /\ cursor = NoCursor
    /\ admin = NoDialogue

NextCheckout ==
    \/ \E t \in PromoInstants : Tick(t)
    \/ \E u \in Started, p \in DOMAIN plans : callback_buy_with_promo(u, p)
    \/ \E u \in Started, code \in {1, 2} : handle_promo_code_input_direct(u, code)
    \/ \E u \in Started, p \in DOMAIN plans, sent \in BOOLEAN :
            callback_pay_with_promo_direct(u, p, sent)
    \/ \E u \in Started, p \in DOMAIN plans, mtype \in {"card", "manual"},
          promo_id \in DOMAIN promo_codes, sent \in BOOLEAN :
            callback_paymethod_promo_direct(u, p, mtype, promo_id, sent)
    \/ \E u \in Started, p \in DOMAIN plans : callback_confirm_paid(u, p)
    \/ \E u \in Started : handle_receipt_photo(u)
    \/ \E u \in Started : handle_full_name(u, user_states[u])
    \/ \E u \in Started, payload \in sent_invoices, issued \in BOOLEAN :
            got_payment(u, payload, user_states[u].group_id, issued)
    \/ \E c \in Callers, id \in 1 .. MaxTickets, approve \in BOOLEAN,
          issued \in BOOLEAN :
            handle_payment_review(c, id, approve, issued)

SpecCheckout == InitCheckout /\ [][NextCheckout]_vars

\* Reminders: the bot is started with its users registered; invoices are
\* paid from sessions that hold the default group, the loop runs and an
\* administrator triggers the reminder runs by command, at the instants of
\* NotifyInstants.  The removal sweep does not run (the loop was not running
\* on the 6th at 00:01) and the platform issues no invite link; it fails to
\* message for any set of rows.
InitNotify ==
    /\ now = timestamp(Year0, 12, 20, 12, 0, 0)
    /\ users = [u \in Users |-> [NoUser EXCEPT !.registered = TRUE]]
    /\ subscriptions = << >>
    /\ manual_payments = << >>
    /\ promo_codes = << >>
    /\ promo_usage = << >>
    /\ user_states = [u \in Users |-> NoSession]
    /\ sent_invoices = {}
    /\ link_seq = 0
    /\ last = NoEvent
    /\ loop = LoopStart
    /\ threads = NoThreads
    /\ banned = {}
    /\ cursor = NoCursor
    /\ admin = NoDialogue

NextNotify ==
    \/ \E t \in NotifyInstants : Tick(t)
    \/ \E u \in Started, payload \in Payloads :
            got_payment(u, payload, get_default_group, FALSE)
    \/ \E mf \in SUBSET unpaid_to_remind : check_expirations_loop({}, mf)
    \/ \E c \in Callers, mf \in SUBSET unpaid_to_remind :
            cmd_run_payment_notifications(c, mf)
    \/ \E c \in Callers, mf \in SUBSET deadline_to_remind :
            cmd_run_deadline_notifications(c, mf)

SpecNotify == InitNotify /\ [][NextNotify]_vars

\* the prices and the discounts of the promo application specification
Prices == (0 .. MaxPrice) \cup {plans[p].price_cents : p \in DOMAIN plans}
Percents == 1 .. 100
FixedCents == (1 .. MaxFixed) \cup {plans[p].price_cents : p \in DOMAIN plans}

\* Applications of a promo code: the bot holds one usable promo code, with a
\* percentage, with a fixed discount or with neither, and the user has
\* opened the promo dialogue of plan 1 when the plan had some price.
InitApply ==
    /\ now = timestamp(Year0, 12, 20, 12, 0, 0)
    /\ users = [u \in Users |-> [NoUser EXCEPT !.registered = TRUE]]
    /\ subscriptions = << >>
    /\ manual_payments = << >>
    /\ \E discount \in ({<<d, 0>> : d \in Percents}
                         \cup {<<0, f>> : f \in FixedCents}
                         \cup {<<0, 0>>, <<NULL, NULL>>}) :
            promo_codes =
                <<[discount_percent |-> discount[1],
                   discount_fixed_cents |-> discount[2],
                   is_active |-> 1, used_count |-> 0, max_uses |-> NULL,
                   expires_ts |-> NULL]>>
    /\ promo_usage = << >>
    /\ \E price_cents \in Prices :
            user_states =
                [u \in Users |->
                    [promo_session(1) EXCEPT !.original_price = price_cents]]
    /\ sent_invoices = {}
    /\ link_seq = 0
    /\ last = NoEvent
    /\ loop = LoopStart
    /\ threads = NoThreads
    /\ banned = {}
    /\ cursor = NoCursor
    /\ admin = NoDialogue

NextApply ==
    \/ \E u \in Started, code \in {1, 2} : handle_promo_code_input_direct(u, code)
    \/ \E u \in Started, sent \in BOOLEAN :
            callback_pay_with_promo_direct(u, user_states[u].plan_id, sent)

SpecApply == InitApply /\ [][NextApply]_vars

\* ------------------------------------------------------- referral cashback
\* the accounts of the referral specification: the user, a second user and
\* an account that never starts the bot
ReferralUsers == Users \cup {Stranger, Stranger + 1}

\* total amounts of gateway payments: the price of plan 1, and that price
\* reduced by a promo code to an amount whose percentage is not whole
ReferralAmounts == {plans[1].price_cents, plans[1].price_cents - 5}

ReferralPayloads ==
    {[plan_id |-> p, user_id |-> u, promo_id |-> 0,
      amount_cents |-> a, created_ts |-> now,
      period_month |-> get_current_period[1],
      period_year |-> get_current_period[2]] :
        u \in {v \in ReferralUsers : users[v].registered},
        p \in DOMAIN plans, a \in ReferralAmounts}

\* Referrals: nobody has started the bot yet.
InitReferral ==
    /\ now = timestamp(Year0, 12, 20, 12, 0, 0)
    /\ users = [u \in ReferralUsers |-> NoUser]
    /\ subscriptions = << >>
    /\ manual_payments = << >>
    /\ promo_codes = << >>
    /\ promo_usage = << >>
    /\ user_states = [u \in ReferralUsers |-> NoSession]
    /\ sent_invoices = {}
    /\ link_seq = 0
    /\ last = NoEvent
    /\ loop = LoopStart
    /\ threads = NoThreads
    /\ banned = {}
    /\ cursor = NoCursor
    /\ admin = NoDialogue

\* The accounts start the bot from a plain link or from the referral link of
\* any account (their own included), and pay invoices; the payer's session
\* holds the default group or no group.
NextReferral ==
    \/ \E u \in Users \cup {Stranger}, ref \in {NULL} \cup ReferralUsers :
            cmd_start(u, ref)
    \/ \E payload \in ReferralPayloads, g \in {NULL, get_default_group} :
            got_payment(payload.user_id, payload, g, FALSE)

SpecReferral == InitReferral /\ [][NextReferral]_vars

\* --------------------------------------------------- sessions and buttons
\* Purchases from the menus: the bot is started on the database of
\* InitCheckout with card and manual payment methods configured.  The user
\* presses the purchase buttons of the plans, enters the promo code, presses
\* the payment-method and 'I have paid' buttons of any message sent so far
\* (for any plan), cancels, and sends the receipt and the name.
NextSession ==
    \/ \E u \in Started, p \in DOMAIN plans : callback_buy_full(u, p)
    \/ \E u \in Started, p \in DOMAIN plans : callback_buy_handler(u, p)
    \/ \E u \in Started, p \in DOMAIN plans : callback_buy_with_promo(u, p)
    \/ \E u \in Started : handle_promo_code_input_direct(u, 1)
    \/ \E u \in Started, p \in DOMAIN plans, mtype \in {"card", "manual"},
          sent \in BOOLEAN :
            callback_paymethod_new(u, p, mtype, sent)
    \/ \E u \in Started, p \in DOMAIN plans, mtype \in {"card", "manual"},
          sent \in BOOLEAN :
            callback_paymethod(u, p, mtype, sent)
    \/ \E u \in Started, p \in DOMAIN plans, mtype \in {"card", "manual"},
          promo_id \in DOMAIN promo_codes, sent \in BOOLEAN :
            \/ callback_paymethod_promo(u, p, mtype, promo_id, sent)
            \/ callback_paymethod_promo_direct(u, p, mtype, promo_id, sent)
    \/ \E u \in Started, p \in DOMAIN plans : callback_confirm_paid(u, p)
    \/ \E u \in Started : callback_cancel_payment(u)
    \/ \E u \in Started : handle_receipt_photo(u)
    \/ \E u \in Started : handle_full_name(u, user_states[u])

SpecSession == InitCheckout /\ [][NextSession]_vars

\* The loop thread: the bot is started on an empty database; the user starts
\* the bot and pays invoices, the clock moves, the thread runs its triggers
\* (the platform failing to ban and to message for any rows), and exceptions
\* are raised in the body of the loop.
NextLoop ==
    \/ \E t \in Instants : Tick(t)
    \/ \E u \in Users : cmd_start(u, NULL)
    \/ \E u \in Started, payload \in Payloads :
            got_payment(u, payload, get_default_group, FALSE)
    \/ \E bf \in SUBSET expired_subs, mf \in SUBSET expired_subs :
            check_expirations_loop(bf, mf)
    \/ loop_raise
    \/ loop_except

SpecLoop == Init /\ [][NextLoop]_vars

\* the thread is scheduled: it does not stay in its except clause for ever
SpecLoopFair == SpecLoop /\ WF_vars(loop_except)

\* ------------------------------------------------------------ plan prices
\* the characters of the texts an administrator enters for a price
PriceChars == {" ", "-", ".", "0", "5", "9"}

PriceTexts == UNION {[1 .. n -> PriceChars] : n \in 0 .. MaxText}

\* Plan prices: an administrator has typed a text at the price step of the
\* dialogue that creates a plan, or at the price field of the dialogue that
\* edits plan 1.
InitPrice ==
    /\ now = timestamp(Year0, 12, 20, 12, 0, 0)
    /\ users = [u \in Users |-> NoUser]
    /\ subscriptions = << >>
    /\ manual_payments = << >>
    /\ promo_codes = << >>
    /\ promo_usage = << >>
    /\ user_states = [u \in Users |-> NoSession]
    /\ sent_invoices = {}
    /\ link_seq = 0
    /\ last = NoEvent
    /\ loop = LoopStart
    /\ threads = NoThreads
    /\ banned = {}
    /\ cursor = NoCursor
    /\ \E text \in PriceTexts :
        \/ admin = [NoDialogue EXCEPT !.text = text, !.mode = "create",
                                      !.step = "price"]
        \/ admin = [NoDialogue EXCEPT !.text = text, !.mode = "edit",
                                      !.step = "editing_price",
                                      !.plan_price = <<plans[1].price_cents>>]

NextPrice ==
    \/ handle_plan_price
    \/ save_plan_to_db
    \/ handle_edit_text_input

SpecPrice == InitPrice /\ [][NextPrice]_vars

\* --------------------------------------------------------- sweep calendar
\* the instants of the sweep specification: a day of November, a day of
\* December, a day of the grace period of January, the second at which the
\* rows paid in December end, and the trigger of the 6th
SweepInstants ==
    { timestamp(Year0, 11, 20, 0, 0, 0),
      timestamp(Year0, 12, 20, 12, 0, 0),
      timestamp(Year0 + 1, 1, 3, 12, 0, 0),
      timestamp(Year0 + 1, 1, 5, 23, 59, 59),
      timestamp(Year0 + 1, 1, 6, 0, 1, 0) }

\* Sweeps at any time: the bot is started in November with its users
\* registered; invoices are paid from sessions that hold the default group,
\* the clock moves, and the sweep is run by the loop and, at any of the
\* instants, by an administrator's command (the platform failing for any
\* rows).
InitSweep ==
    /\ now = timestamp(Year0, 11, 20, 0, 0, 0)
    /\ users = [u \in Users |-> [NoUser EXCEPT !.registered = TRUE]]
    /\ subscriptions = << >>
    /\ manual_payments = << >>
    /\ promo_codes = << >>
    /\ promo_usage = << >>
    /\ user_states = [u \in Users |-> NoSession]
    /\ sent_invoices = {}
    /\ link_seq = 0
    /\ last = NoEvent
    /\ loop = LoopStart
    /\ threads = NoThreads
    /\ banned = {}
    /\ cursor = NoCursor
    /\ admin = NoDialogue

NextSweep ==
    \/ \E t \in SweepInstants : Tick(t)
    \/ \E u \in Started, payload \in Payloads :
            got_payment(u, payload, get_default_group, FALSE)
    \/ \E bf \in SUBSET expired_subs, mf \in SUBSET expired_subs :
            check_expirations_loop(bf, mf)
    \/ \E c \in Callers, bf \in SUBSET expired_subs, mf \in SUBSET expired_subs :
            cmd_run_remove_unpaid(c, bf, mf)

SpecSweep == InitSweep /\ [][NextSweep]_vars

\* The purchase entry points: the bot is started on the database of
\* InitCheckout with card and manual payment methods configured.  The user
\* opens a new purchase, a renewal or a purchase with the promo code from the
\* buttons of the plan messages sent so far, chooses the method, pays the
\* invoices and submits the tickets; the clock moves from December to
\* January.
NextPurchase ==
    \/ \E t \in PromoInstants : Tick(t)
    \/ \E u \in Started : callback_buy_full(u, 1)
    \/ \E u \in Started : callback_renew_plan(u, 1)
    \/ \E u \in Started : callback_buy_with_promo(u, 1)
    \/ \E u \in Started : handle_promo_code_input_direct(u, 1)
    \/ \E u \in Started, sent \in BOOLEAN :
            callback_pay_with_promo_direct(u, 1, sent)
    \/ \E u \in Started, mtype \in {"card", "manual"}, sent \in BOOLEAN :
            callback_paymethod_new(u, 1, mtype, sent)
    \/ \E u \in Started, mtype \in {"card", "manual"}, sent \in BOOLEAN :
            callback_paymethod_renew(u, 1, mtype, sent)
    \/ \E u \in Started : callback_confirm_paid(u, 1)
    \/ \E u \in Started : handle_receipt_photo(u)
    \/ \E u \in Started : handle_full_name(u, user_states[u])
    \/ \E u \in Started, payload \in sent_invoices :
            got_payment(u, payload, user_states[u].group_id, TRUE)
    \/ \E c \in ADMIN_IDS, id \in 1 .. MaxTickets, approve \in BOOLEAN :
            handle_payment_review(c, id, approve, TRUE)

SpecPurchase == InitCheckout /\ [][NextPurchase]_vars

\* Two customers and one promo code with a cap of one use: the bot is started
\* on a database in which both have started the bot and nobody has used the
\* code.
PromoBuyers == Users \cup {Stranger}

InitCap ==
    /\ now = timestamp(Year0, 12, 20, 12, 0, 0)
    /\ users = [u \in PromoBuyers |-> [NoUser EXCEPT !.registered = TRUE]]
    /\ subscriptions = << >>
    /\ manual_payments = << >>
    /\ promo_codes =
            <<[discount_percent |-> 10, discount_fixed_cents |-> 0,
               is_active |-> 1, used_count |-> 0, max_uses |-> 1,
               expires_ts |-> NULL]>>
    /\ promo_usage = << >>
    /\ user_states = [u \in PromoBuyers |-> NoSession]
    /\ sent_invoices = {}
    /\ link_seq = 0
    /\ last = NoEvent
    /\ loop = LoopStart
    /\ threads = NoThreads
    /\ banned = {}
    /\ cursor = NoCursor
    /\ admin = NoDialogue

\* Each customer opens the purchase with a promo code, enters the code (or a
\* code that does not exist), asks for the invoice and pays it, in any order.
NextCap ==
    \/ \E u \in PromoBuyers, p \in DOMAIN plans : callback_buy_with_promo(u, p)
    \/ \E u \in PromoBuyers, code \in {1, 2} :
            handle_promo_code_input_direct(u, code)
    \/ \E u \in PromoBuyers, sent \in BOOLEAN :
            callback_pay_with_promo_direct(u, user_states[u].plan_id, sent)
    \/ \E payload \in sent_invoices, issued \in BOOLEAN :
            got_payment(payload.user_id, payload,
                        user_states[payload.user_id].group_id, issued)

SpecCap == InitCap /\ [][NextCap]_vars

\* The deadline reminder: the bot is started with its users registered;
\* invoices are paid from sessions that hold the default group, the loop
\* runs and an administrator triggers the deadline reminder by command, at
\* the instants of DeadlineInstants.  The platform fails to message for any
\* set of rows.
NextDeadline ==
    \/ \E t \in DeadlineInstants : Tick(t)
    \/ \E u \in Started, payload \in Payloads, issued \in BOOLEAN :
            got_payment(u, payload, get_default_group, issued)
    \/ \E mf \in SUBSET deadline_to_remind : check_expirations_loop({}, mf)
    \/ \E c \in Callers, mf \in SUBSET deadline_to_remind :
            cmd_run_deadline_notifications(c, mf)

SpecDeadline == InitNotify /\ [][NextDeadline]_vars

\* Handlers and the sweep on three threads: the bot runs on 6 January at
\* 00:01 on a database in which the user has started the bot, has or has
\* not a subscription to plan 1 paid on 20 December (valid until 5 January
\* 23:59:59), has submitted a manual-payment ticket for plan 1 and has been
\* sent a card invoice for it from a new-purchase session.
DecemberRow ==
    [user_id |-> 1, plan_id |-> 1,
     start_ts |-> timestamp(Year0, 12, 20, 12, 0, 0),
     end_ts |-> timestamp(Year0 + 1, 1, 5, 23, 59, 59),
     invite_link |-> 1, active |-> 1, removed |-> 0,
     group_id |-> plans[1].group_id,
     current_period_month |-> 12, current_period_year |-> Year0,
     part_paid |-> "full", last_notification_ts |-> NULL]

InitThreads ==
    /\ now = timestamp(Year0 + 1, 1, 6, 0, 1, 0)
    /\ users = [u \in Users |-> [NoUser EXCEPT !.registered = TRUE]]
    /\ \/ subscriptions = << >> /\ link_seq = 0
       \/ subscriptions = <<DecemberRow>> /\ link_seq = 1
    /\ manual_payments =
            <<[user_id |-> 1, plan_id |-> 1,
               amount_cents |-> plans[1].price_cents, status |-> "pending",
               admin_id |-> NULL, promo_id |-> NULL]>>
    /\ promo_codes = << >>
    /\ promo_usage = << >>
    /\ user_states = [u \in Users |-> plan_session(1, "new_subscription")]
    /\ sent_invoices =
            {[plan_id |-> 1, user_id |-> 1, promo_id |-> 0,
              amount_cents |-> plans[1].price_cents, created_ts |-> now,
              period_month |-> get_current_period[1],
              period_year |-> get_current_period[2]]}
    /\ last = NoEvent
    /\ loop = LoopStart
    /\ threads = NoThreads
    /\ banned = {}
    /\ cursor = NoCursor
    /\ admin = NoDialogue

\* The gateway confirms the invoice, the administrator presses the approve
\* and the reject button of the ticket, and the loop starts the sweep; the
\* threads take their steps in any order, and the platform fails any call.
NextThreads ==
    \/ \E t \in Workers, payload \in sent_invoices : got_payment_enter(t, payload)
    \/ \E t \in Workers, c \in ADMIN_IDS, id \in 1 .. MaxTickets,
          is_approve \in BOOLEAN :
            handle_payment_review_enter(t, c, id, is_approve)
    \/ \E t \in Workers, unbanned \in BOOLEAN : activate_unban(t, unbanned)
    \/ \E t \in Workers : activate_select_existing(t)
    \/ \E t \in Workers, issued \in BOOLEAN : activate_create_link(t, issued)
    \/ \E t \in Workers : activate_write(t)
    \/ \E t \in Workers : got_payment_leave(t)
    \/ \E t \in Workers : handle_payment_review_leave(t)
    \/ remove_unpaid_users_select("loop")
    \/ \E ban_ok \in BOOLEAN : remove_unpaid_users_ban("loop", ban_ok)
    \/ remove_unpaid_users_mark("loop")

SpecThreads == InitThreads /\ [][NextThreads]_vars

\* The gateway confirms the invoice and the loop starts the sweep; every
\* execute and every fetch of the worker and of the sweep is a step of its
\* own, and the platform fails any call.
NextCursor ==
    \/ \E t \in Workers, payload \in sent_invoices : got_payment_call(t, payload)
    \/ \E t \in Workers : activate_execute_plan(t)
    \/ \E t \in Workers : activate_fetch_plan(t)
    \/ \E t \in Workers, unbanned \in BOOLEAN : activate_unban(t, unbanned)
    \/ \E t \in Workers : activate_execute_existing(t)
    \/ \E t \in Workers : activate_fetch_existing(t)
    \/ \E t \in Workers, issued \in BOOLEAN : activate_create_link(t, issued)
    \/ \E t \in Workers : activate_write(t)
    \/ \E t \in Workers : got_payment_leave(t)
    \/ remove_unpaid_users_execute("loop")
    \/ remove_unpaid_users_fetchall("loop")
    \/ \E ban_ok \in BOOLEAN : remove_unpaid_users_ban("loop", ban_ok)
    \/ remove_unpaid_users_mark("loop")

SpecCursor == InitThreads /\ [][NextCursor]_vars

\* ------------------------------------------------------------- properties
\* the row is paid for the period of the clock and its validity has not ended
PaidNow(row) ==
    /\ row.current_period_month = period_of[now][1]
    /\ row.current_period_year = period_of[now][2]
    /\ row.part_paid = "full"
    /\ row.end_ts > now

\* the ids of the active rows of (user, plan)
ActiveRows(u, p) ==
    {i \in 1 .. Len(subscriptions) :
        /\ subscriptions[i].user_id = u
        /\ subscriptions[i].plan_id = p
        /\ subscriptions[i].active = 1}

\* the handlers that activate, and the two triggers of the removal sweep
ActivationOps == {"got_payment", "handle_payment_review"}
SweepOps == {"loop_remove_unpaid", "cmd_run_remove_unpaid"}

\* the step is a successful activation of (u, p)
Activated(u, p) ==
    /\ last'.op \in ActivationOps
    /\ last'.ok
    /\ last'.user = u
    /\ last'.plan = p

\* C1: after any sequence of activations (gateway success or manual
\* approval), fresh-credential requests and removal sweeps, every (user, plan)
\* pair has at most one subscription row with active = 1.
C1_OneActiveRowPerUserPlan ==
    \A u \in Users, p \in DOMAIN plans : Cardinality(ActiveRows(u, p)) <= 1

\* C1's case: a pair that has a removed row and, after a new payment, an
\* active one
C1_Witness ==
    \E i, j \in 1 .. Len(subscriptions) :
        /\ subscriptions[i].user_id = subscriptions[j].user_id
        /\ subscriptions[i].plan_id = subscriptions[j].plan_id
        /\ subscriptions[i].active = 0
        /\ subscriptions[i].removed = 1
        /\ subscriptions[j].active = 1

\* C2: a run of the removal sweep (scheduled trigger or admin command) never
\* attempts a ban for, and never changes active or removed on, a row whose
\* period is the current one, whose part_paid is 'full' and whose end_ts is
\* in the future.
C2_SweepSparesPaidRows ==
    [][ last'.op \in SweepOps =>
            \A i \in 1 .. Len(subscriptions) :
                PaidNow(subscriptions[i]) =>
                    /\ i \notin last'.swept
                    /\ i \notin last'.banned
                    /\ subscriptions'[i].active = subscriptions[i].active
                    /\ subscriptions'[i].removed = subscriptions[i].removed ]_vars

\* C2's case: a sweep that removed a row while another, paid, row was active
C2_Witness ==
    /\ last.op \in SweepOps
    /\ last.swept # {}
    /\ \E i \in 1 .. Len(subscriptions) :
            subscriptions[i].active = 1 /\ PaidNow(subscriptions[i])

\* the instant e is 23:59:59 on the 5th of the calendar month that follows
\* the month of the instant t
FifthOfMonthAfter(t, e) ==
    /\ local_day(e) = 5
    /\ local_hour(e) = 23
    /\ local_minute(e) = 59
    /\ e % 60 = 59
    /\ 12 * local_year(e) + local_month(e)
            = 12 * local_year(t) + local_month(t) + 1

\* C3: whatever the day on which an activation happens, the end_ts it writes
\* is 23:59:59 local time on the 5th of the calendar month strictly after the
\* month of the activation; after a December activation it is 5 January of
\* the following year.
C3_EndOnFifthOfNextMonth ==
    \A i \in 1 .. Len(subscriptions) :
        /\ subscriptions[i].start_ts = now
        /\ FifthOfMonthAfter(now, subscriptions[i].end_ts)
        /\ local_month(now) = 12 =>
                /\ local_month(subscriptions[i].end_ts) = 1
                /\ local_year(subscriptions[i].end_ts) = local_year(now) + 1

\* C3's case: an activation in the last second of 31 December
C3_Witness ==
    /\ last.op = "got_payment"
    /\ last.ok
    /\ last.did = "insert"
    /\ now = timestamp(Year0, 12, 31, 23, 59, 59)
    /\ subscriptions[last.sub].end_ts = timestamp(Year0 + 1, 1, 5, 23, 59, 59)

\* C4: an activation of a (user, plan) whose active row is already paid for
\* the current period and unexpired inserts no row and leaves every row as it
\* was, except for the credential and the notification throttle marker of
\* that row: end_ts, start_ts, period, part_paid, active and removed stay.
C4_PaidRowOnlyRefreshed ==
    [][ \A u \in Users, p \in DOMAIN plans, i \in 1 .. Len(subscriptions) :
            ( /\ Activated(u, p)
              /\ i \in ActiveRows(u, p)
              /\ \A j \in ActiveRows(u, p) : j <= i
              /\ PaidNow(subscriptions[i]) )
            => /\ Len(subscriptions') = Len(subscriptions)
               /\ subscriptions' =
                    [subscriptions EXCEPT
                        ![i].invite_link = subscriptions'[i].invite_link,
                        ![i].last_notification_ts =
                            subscriptions'[i].last_notification_ts] ]_vars

\* C4's case: a second payment for a row paid at an earlier instant of the
\* same period
C4_Witness ==
    /\ last.op \in ActivationOps
    /\ last.ok
    /\ last.did = "refresh"
    /\ subscriptions[last.sub].start_ts < now

\* C5: a successful activation of a (user, plan) whose active row is not paid
\* for the current period (stale period, or validity over and not yet swept)
\* inserts no row: it overwrites that row with the current period, part_paid
\* 'full', start_ts = now, the new end_ts, the credential the activation
\* returns, active = 1 and removed = 0, and the status check of (user, plan)
\* then reports the row paid.
C5_StaleRowRenewedInPlace ==
    [][ \A u \in Users, p \in DOMAIN plans, i \in 1 .. Len(subscriptions) :
            ( /\ Activated(u, p)
              /\ i \in ActiveRows(u, p)
              /\ \A j \in ActiveRows(u, p) : j <= i
              /\ ~PaidNow(subscriptions[i]) )
            => /\ Len(subscriptions') = Len(subscriptions)
               /\ subscriptions' =
                    [subscriptions EXCEPT
                        ![i] = [@ EXCEPT
                            !.current_period_month = period_of[now][1],
                            !.current_period_year = period_of[now][2],
                            !.part_paid = "full",
                            !.start_ts = now,
                            !.end_ts = end_ts_of(now),
                            !.invite_link = last'.result,
                            !.last_notification_ts =
                                subscriptions'[i].last_notification_ts,
                            !.active = 1,
                            !.removed = 0]]
               /\ subscriptions'[i].end_ts > subscriptions[i].end_ts
               /\ check_existing_subscription(u, p)'.found
               /\ check_existing_subscription(u, p)'.id = i
               /\ check_existing_subscription(u, p)'.status = "paid"
               /\ ~check_existing_subscription(u, p)'.needs_renewal ]_vars

\* C5's case: a payment that renewed a row of an earlier period
C5_Witness ==
    /\ last.op \in ActivationOps
    /\ last.ok
    /\ last.did = "renew"
    /\ Len(subscriptions) = 1
    /\ subscriptions[last.sub].start_ts = now
    /\ check_existing_subscription(last.user, last.plan).status = "paid"

\* C7: the status check of (user, plan) returns none exactly when the pair
\* has no active row; otherwise it reports 'paid' if and only if the latest
\* active row's period is the current one, its part_paid is 'full' and its
\* end_ts is in the future, and it reports needs-renewal in every other case.
C7_StatusCheck ==
    \A u \in Users, p \in DOMAIN plans :
        LET r == check_existing_subscription(u, p)
            rows == ActiveRows(u, p)
        IN  /\ r.found <=> rows # {}
            /\ ~r.found => r.status = "none"
            /\ r.found =>
                  LET i == CHOOSE k \in rows : \A j \in rows : j <= k
                  IN  /\ r.id = i
                      /\ (r.status = "paid") <=> PaidNow(subscriptions[i])
                      /\ r.paid <=> PaidNow(subscriptions[i])
                      /\ r.needs_renewal <=> ~PaidNow(subscriptions[i])

\* C7's case: one plan reported paid, another reported as not yet paid for
\* the new month while still valid
C7_Witness ==
    \E p, q \in DOMAIN plans, u \in Users :
        /\ check_existing_subscription(u, p).status = "paid"
        /\ check_existing_subscription(u, q).status = "needs_payment"
        /\ check_existing_subscription(u, q).needs_renewal
        /\ subscriptions[check_existing_subscription(u, q).id].end_ts > now

\* C6: when a user with no active row for a plan is activated for it, exactly
\* one row is appended: part_paid 'full', the current (month, year) as its
\* period, active = 1, removed = 0, end_ts the 5th of next month 23:59:59,
\* and a newly issued credential, stored in the row and returned.
C6_NewRowWithIssuedCredential ==
    [][ \A u \in Users, p \in DOMAIN plans :
            (Activated(u, p) /\ ActiveRows(u, p) = {})
            => /\ Len(subscriptions') = Len(subscriptions) + 1
               /\ SubSeq(subscriptions', 1, Len(subscriptions)) = subscriptions
               /\ LET row == subscriptions'[Len(subscriptions')]
                  IN  /\ row.user_id = u
                      /\ row.plan_id = p
                      /\ row.part_paid = "full"
                      /\ row.current_period_month = period_of[now][1]
                      /\ row.current_period_year = period_of[now][2]
                      /\ row.active = 1
                      /\ row.removed = 0
                      /\ row.end_ts = end_ts_of(now)
                      /\ row.invite_link = last'.result
                      /\ last'.result # NULL
                      /\ last'.result > link_seq ]_vars

\* C8: when an administrator approves a pending ticket, the subscription of
\* the ticket's (user, plan) is paid for the current period, the ticket is
\* 'approved' with the reviewing administrator recorded and the user is sent
\* the credential of the subscription; when the activation fails, the ticket
\* and the subscriptions stay as they were.
C8_ApprovalActivatesAndNotifies ==
    [][ \A id \in 1 .. Len(manual_payments) :
            ( /\ manual_payments[id].status = "pending"
              /\ last'.op = "handle_payment_review"
              /\ last'.ticket = id
              /\ last'.reason # "Rejected" )
            => LET t == manual_payments[id]
                   st == check_existing_subscription(t.user_id, t.plan_id)'
               IN  IF last'.ok
                   THEN /\ st.status = "paid"
                        /\ manual_payments'[id].status = "approved"
                        /\ manual_payments'[id].admin_id \in ADMIN_IDS
                        /\ \E m \in last'.msgs :
                                /\ m.to = t.user_id
                                /\ m.link # NULL
                                /\ m.link = subscriptions'[st.id].invite_link
                   ELSE /\ manual_payments' = manual_payments
                        /\ subscriptions' = subscriptions ]_vars

\* C9: a ticket's status only moves pending -> approved or pending ->
\* rejected, and only in an administrator's review of that ticket; a reviewed
\* ticket never changes again, and a review changes subscriptions only for a
\* ticket that was pending.  No other step (sweep, clock, payment) changes a
\* ticket.
C9_TicketStatusMoves ==
    [][ /\ Len(manual_payments') >= Len(manual_payments)
        /\ \A id \in 1 .. Len(manual_payments) :
              LET t == manual_payments[id]
                  t2 == manual_payments'[id]
              IN  /\ t.status # "pending" => t2 = t
                  /\ t2 # t =>
                        /\ t.status = "pending"
                        /\ t2.status \in {"approved", "rejected"}
                        /\ t2.admin_id \in ADMIN_IDS
                        /\ t2 = [t EXCEPT !.status = t2.status,
                                          !.admin_id = t2.admin_id]
                        /\ last'.op = "handle_payment_review"
                        /\ last'.ticket = id
        /\ ( /\ last'.op = "handle_payment_review"
             /\ subscriptions' # subscriptions \/ link_seq' # link_seq )
           => /\ last'.ticket \in 1 .. Len(manual_payments)
              /\ manual_payments[last'.ticket].status = "pending"
              /\ manual_payments'[last'.ticket].status = "approved" ]_vars

\* C9's case: a ticket approved in December that the clock and a sweep that
\* removed its subscription have left approved
C9_Witness ==
    /\ Len(manual_payments) = 1
    /\ manual_payments[1].status = "approved"
    /\ last.op \in SweepOps
    /\ last.swept # {}

\* C10: once a usage of promo P by user U is recorded, the eligibility check
\* of P for U fails with the AlreadyUsed reason, whatever P's active flag,
\* usage counter, cap and expiry, and a code typed by U is refused with that
\* reason.
C10_UsedPromoStaysUsed ==
    \A k \in 1 .. Len(promo_usage) :
        LET P == promo_usage[k].promo_id
            U == promo_usage[k].user_id
        IN  /\ can_use_promo_code(P, U) = <<FALSE, "AlreadyUsed">>
            /\ ( /\ last.op = "handle_promo_code_input_direct"
                 /\ last.user = U
                 /\ last.result = P )
               => ~last.ok /\ last.reason = "AlreadyUsed"

\* C10's case: the user paid with the code, which is now exhausted and
\* expired, and typed it again
C10_Witness ==
    /\ last.op = "handle_promo_code_input_direct"
    /\ last.reason = "AlreadyUsed"
    /\ Len(subscriptions) > 0
    /\ promo_codes[1].max_uses # NULL
    /\ promo_codes[1].used_count >= promo_codes[1].max_uses
    /\ promo_codes[1].expires_ts # NULL
    /\ promo_codes[1].expires_ts < now

\* C11: whatever promo entries, invoices, gateway successes and manual
\* approvals have happened, the usage table holds at most one row for a given
\* (promo, user), so a user completes at most one confirmed payment
\* discounted by a given promo code.
C11_OneUsageRowPerPromoAndUser ==
    \A j \in 1 .. Len(promo_usage), k \in 1 .. Len(promo_usage) :
        ( /\ promo_usage[j].promo_id = promo_usage[k].promo_id
          /\ promo_usage[j].user_id = promo_usage[k].user_id ) => j = k

\* C12: the usage table and the usage counters of the promo codes change only
\* in a step that confirms a payment (a successful got_payment); entering a
\* code, previewing the price, choosing a method, creating an invoice or
\* starting and submitting a manual payment leave both unchanged.
C12_UsageRecordedOnlyAtConfirmedPayment ==
    [][ ( \/ promo_usage' # promo_usage
          \/ \E i \in DOMAIN promo_codes :
                promo_codes'[i].used_count # promo_codes[i].used_count )
        => ( /\ last'.op = "got_payment"
             /\ last'.ok
             /\ Len(promo_usage') = Len(promo_usage) + 1 ) ]_vars

\* an invoice discounted by promo 1 has been sent and a manual-payment ticket
\* with promo 1 has been submitted, and the promo is still unused
C12_Witness ==
    /\ \E payload \in sent_invoices : payload.promo_id = 1
    /\ \E k \in 1 .. Len(manual_payments) : manual_payments[k].promo_id = 1
    /\ promo_usage = << >>
    /\ promo_codes[1].used_count = 0

\* the conditions of the eligibility check, on the stored promo 1 and user u
AlreadyUsedBy(u) ==
    \E k \in 1 .. Len(promo_usage) :
        promo_usage[k].promo_id = 1 /\ promo_usage[k].user_id = u
IsInactive == promo_codes[1].is_active = 0
IsExhausted ==
    /\ promo_codes[1].max_uses \notin {NULL, 0}
    /\ promo_codes[1].used_count >= promo_codes[1].max_uses
IsExpired ==
    /\ promo_codes[1].expires_ts \notin {NULL, 0}
    /\ promo_codes[1].expires_ts < now

\* C13: the eligibility check of an existing promo code answers the reason
\* of the first failing condition in the order AlreadyUsed, Inactive,
\* ExhaustedUses, Expired, and ok only when none of the four fails.
C13_FirstFailingReason ==
    ( /\ last.op = "handle_promo_code_input_direct"
      /\ last.result = 1 )
    => /\ last.reason =
            IF AlreadyUsedBy(last.user) THEN "AlreadyUsed"
            ELSE IF IsInactive THEN "Inactive"
            ELSE IF IsExhausted THEN "ExhaustedUses"
            ELSE IF IsExpired THEN "Expired"
            ELSE "OK"
       /\ last.ok <=> ~ ( \/ AlreadyUsedBy(last.user) \/ IsInactive
                          \/ IsExhausted \/ IsExpired )

\* the check has answered Inactive for a promo that is also exhausted and
\* expired
C13_Witness ==
    /\ last.op = "handle_promo_code_input_direct"
    /\ last.result = 1
    /\ last.reason = "Inactive"
    /\ IsExhausted
    /\ IsExpired

\* the promo of id 1 as a percentage promo of d, as a fixed promo of f
IsPercentPromo(d) ==
    1 \in DOMAIN promo_codes /\ promo_codes[1].discount_percent = d
IsFixedPromo(f) ==
    /\ 1 \in DOMAIN promo_codes
    /\ promo_codes[1].discount_percent \in {NULL, 0}
    /\ promo_codes[1].discount_fixed_cents = f

\* the sessions in which promo 1 has been applied
Applied == {u \in Users : /\ user_states[u].mode = "promo_applied_direct"
                          /\ user_states[u].promo_id = 1}

\* C14: for a price p >= 0, a percentage promo of d in 1..100 gives
\* max(0, p - floor(p*d/100)) and a fixed promo of f > 0 gives max(0, p - f);
\* the result lies between 0 and p, and 10% on 1000 gives 900.
C14_DiscountedPrice ==
    \A u \in Applied :
        LET p == user_states[u].original_price
            r == user_states[u].final_price
        IN  /\ \A d \in Percents :
                IsPercentPromo(d) =>
                    /\ \E q \in 0 .. p :
                          /\ 100 * q <= p * d
                          /\ p * d < 100 * (q + 1)
                          /\ r = IF p - q < 0 THEN 0 ELSE p - q
                    /\ 0 <= r /\ r <= p
                    /\ (p = 1000 /\ d = 10) => r = 900
            /\ \A f \in FixedCents :
                IsFixedPromo(f) =>
                    /\ r = IF p - f < 0 THEN 0 ELSE p - f
                    /\ 0 <= r /\ r <= p

\* 10% has been applied to 1000, and gave 900
C14_Witness ==
    \E u \in Applied :
        /\ IsPercentPromo(10)
        /\ user_states[u].original_price = 1000
        /\ user_states[u].final_price = 900
        /\ last.op = "handle_promo_code_input_direct"

\* the promo has neither a percentage nor a fixed discount
Malformed(promo) ==
    /\ promo.discount_percent \in {NULL, 0}
    /\ promo.discount_fixed_cents \in {NULL, 0}

StaleRow(i) ==
    /\ subscriptions[i].active = 1
    /\ subscriptions[i].end_ts < now
    /\ \/ subscriptions[i].current_period_month # period_of[now][1]
       \/ subscriptions[i].current_period_year # period_of[now][2]

\* C16: a run of the removal sweep leaves every stale row with active=0 and
\* removed=1, having attempted the ban and the notification of its user,
\* whether or not the platform failed on the ban or the notification of
\* this row or of another one.
C16_SweepMarksEveryStaleRow ==
    [][ last'.op \in SweepOps =>
            \A i \in 1 .. Len(subscriptions) :
                StaleRow(i) =>
                    /\ subscriptions'[i].active = 0
                    /\ subscriptions'[i].removed = 1
                    /\ i \in last'.banned
                    /\ i \in last'.notified ]_vars

\* the sweep of the 6th has marked two rows: the platform failed on the ban
\* and on the notification of the first one and on neither of the second
C16_Witness ==
    /\ last.op = "loop_remove_unpaid"
    /\ local_day(now) = 6
    /\ \E i \in last.swept, j \in last.swept :
            /\ i < j
            /\ i \notin last.ban_ok /\ i \notin last.notify_ok
            /\ j \in last.ban_ok /\ j \in last.notify_ok
            /\ subscriptions[i].active = 0 /\ subscriptions[i].removed = 1
            /\ subscriptions[j].active = 0 /\ subscriptions[j].removed = 1

\* the two triggers of the renewal reminder and of the deadline reminder
PaymentNotifyOps == {"loop_payment_notifications", "cmd_run_payment_notifications"}
DeadlineNotifyOps == {"loop_deadline_notifications", "cmd_run_deadline_notifications"}

\* row i is fully paid for the period of the clock
PaidForCurrentPeriod(i) ==
    /\ subscriptions[i].current_period_month = period_of[now][1]
    /\ subscriptions[i].current_period_year = period_of[now][2]
    /\ subscriptions[i].part_paid = "full"

\* the rows a renewal reminder is due to: active, not fully paid for the
\* current period, marker empty or older than 20 hours
RenewalReminderDue ==
    {i \in 1 .. Len(subscriptions) :
        /\ subscriptions[i].active = 1
        /\ ~ PaidForCurrentPeriod(i)
        /\ \/ subscriptions[i].last_notification_ts = NULL
           \/ now - subscriptions[i].last_notification_ts > 20 * 3600}

\* a run of the renewal reminder attempts every due row and no other, and
\* writes the run's time to the marker of the rows it delivered to
ReminderRunSendsAndMarks ==
    /\ last'.notified = RenewalReminderDue
    /\ \A i \in 1 .. Len(subscriptions) :
            subscriptions'[i].last_notification_ts =
                IF i \in last'.notify_ok THEN now
                ELSE subscriptions[i].last_notification_ts

\* C17 (as amended): a run of the renewal reminder sends to every due row,
\* sets the marker to the run's time on each send, and never delivers two
\* renewal reminders for the same subscription less than 20 hours apart
\* within one period; after an activation in between, which clears the
\* marker, the next reminder belongs to a later period.
C17_RemindersThrottledWithinPeriod ==
    [][ last'.op \in PaymentNotifyOps =>
            /\ ReminderRunSendsAndMarks
            /\ \A i \in last'.notify_ok :
                    ( /\ last.reminded[i] # NULL
                      /\ now - last.reminded[i] < 20 * 3600 )
                    => period_of[last.reminded[i]] # period_of[now] ]_vars

\* C17 (as stated): a run of the renewal reminder sends to every due row,
\* sets the marker to the run's time on each send, and never delivers two
\* renewal reminders for the same subscription less than 20 hours apart.
C17_RemindersTwentyHoursApart ==
    [][ last'.op \in PaymentNotifyOps =>
            /\ ReminderRunSendsAndMarks
            /\ \A i \in last'.notify_ok :
                    \/ last.reminded[i] = NULL
                    \/ now - last.reminded[i] >= 20 * 3600 ]_vars

\* a renewal reminder was delivered for row i less than 20 hours ago, the
\* row is still unpaid for the current period, and a run has just sent
\* reminders without sending one for row i
C17_Witness ==
    /\ last.op \in PaymentNotifyOps
    /\ last.notify_ok # {}
    /\ \E i \in 1 .. Len(subscriptions) :
            /\ subscriptions[i].active = 1
            /\ ~ PaidForCurrentPeriod(i)
            /\ last.reminded[i] # NULL
            /\ last.reminded[i] < now
            /\ now - last.reminded[i] < 20 * 3600
            /\ i \notin last.notified

\* the rows a deadline reminder is due to: active, end_ts within the next
\* 5 days, fully paid for the current period
DeadlineReminderDue ==
    {i \in 1 .. Len(subscriptions) :
        /\ subscriptions[i].active = 1
        /\ subscriptions[i].end_ts >= now
        /\ subscriptions[i].end_ts - now <= 5 * 24 * 3600
        /\ PaidForCurrentPeriod(i)}

\* C18: a run of the deadline reminder sends the "deadline approaching"
\* reminder to exactly the active subscriptions whose end_ts lies within the
\* next 5 days and which are paid for the current period, to no other
\* subscription, and changes no row.
C18_DeadlineReminderRecipients ==
    [][ last'.op \in DeadlineNotifyOps =>
            /\ last'.notified = DeadlineReminderDue
            /\ last'.notify_ok \subseteq DeadlineReminderDue
            /\ last'.msgs =
                    {Msg(subscriptions[i].user_id, "deadline_reminder", NULL) :
                        i \in last'.notify_ok}
            /\ subscriptions' = subscriptions ]_vars

\* a run of the deadline reminder has reminded a row that is paid for the
\* current period and not another active row, paid for an earlier period
C18_Witness ==
    /\ last.op \in DeadlineNotifyOps
    /\ \E i \in last.notify_ok, j \in 1 .. Len(subscriptions) :
            /\ PaidForCurrentPeriod(i)
            /\ subscriptions[i].end_ts - now <= 5 * 24 * 3600
            /\ j \notin last.notified
            /\ subscriptions[j].active = 1
            /\ ~ PaidForCurrentPeriod(j)

C20_IssuanceFailureIsActivationError ==
    ( /\ last.op \in ActivationOps
      /\ last.did \in {"refresh", "renew", "insert"}
      /\ last.result = NULL )
    => /\ ~ last.ok
       /\ \A m \in last.msgs :
                m.to = last.user => m.kind \notin {"activated", "approved"}

\* ------------------------------------------------------------------- C21
\* the activation of the last event was attempted for a plan that does not
\* exist, or for a plan without a bound group and without a group hint
NoTargetGroup(ev) ==
    /\ ev.op \in ActivationOps
    /\ ev.reason # "Rejected"
    /\ \/ ev.plan \notin DOMAIN plans
       \/ plans[ev.plan].group_id = NULL /\ ev.group_hint = NULL

\* C21: an activation for a plan that does not exist, or for a plan without
\* a bound group called without a group hint, fails with a failure reason
\* and changes nothing: the subscriptions table is as it was, the platform
\* is not called (no unban, no invite link requested) and no link is issued.
C21_NoGroupActivationAborts ==
    [][NoTargetGroup(last') =>
            /\ ~last'.ok
            /\ last'.reason \in {"PlanNotFound", "NoGroupConfigured"}
            /\ last'.did = "none" /\ last'.sub = 0
            /\ ~last'.platform /\ last'.result = NULL
            /\ subscriptions' = subscriptions
            /\ link_seq' = link_seq]_vars

\* a payment for the plan without a group arrived without a group hint while
\* the payer already holds a subscription, and failed
C21_Witness ==
    /\ last.op = "got_payment"
    /\ NoTargetGroup(last)
    /\ last.plan \in DOMAIN plans
    /\ last.reason = "NoGroupConfigured"
    /\ \E i \in 1 .. Len(subscriptions) : subscriptions[i].user_id = last.user

\* ------------------------------------------------------------------- C22
\* the greatest whole number of cents not above percent/100 of the amount
FloorPercent(amount, percent) ==
    CHOOSE c \in 0 .. amount :
        100 * c <= amount * percent /\ amount * percent < 100 * (c + 1)

PurchaseSessionFor(state, pid, with_promo) ==
    /\ state.mode \in {"new_subscription", "no_promo", "promo_applied_direct"}
    /\ state.plan_id = pid
    /\ with_promo => state.final_price # NULL

\* the session the 'I have paid' button for plan pid expects
ManualSessionFor(state, pid) ==
    /\ state.mode = "manual_payment"
    /\ state.plan_id = pid

\* C23: a payment-method, promo-payment or 'I have paid' callback has an
\* effect (an invoice, a manual-payment session, a session waiting for the
\* receipt) only when the user's session was written by the same flow for
\* the same plan; otherwise it is refused and creates nothing.
C23_StaleCallbackCreatesNothing ==
    [][/\ \A inv \in sent_invoices' \ sent_invoices :
            PurchaseSessionFor(user_states[inv.user_id], inv.plan_id,
                               inv.promo_id # 0)
       /\ last'.op = "process_manual_payment_start" =>
            PurchaseSessionFor(user_states[last'.user], last'.plan, FALSE)
       /\ last'.op = "callback_confirm_paid" =>
            ManualSessionFor(user_states[last'.user], last'.plan)]_vars

\* ------------------------------------------------------------------- C27
\* the amounts plan pid can be sold for with promo code promo_id (0: none):
\* its price, or its price with the promo applied
AmountsOf(pid, promo_id) ==
    {plans[pid].price_cents}
        \cup (IF promo_id \in DOMAIN promo_codes
              THEN {apply_promo_code(plans[pid].price_cents, promo_codes[promo_id])}
              ELSE {})

\* C27: every invoice and every manual-payment ticket of a plan carries the
\* plan's price or the plan's price discounted by the promo code it names.
C27_AmountIsPriceOfThePlan ==
    /\ \A inv \in sent_invoices :
            inv.amount_cents \in AmountsOf(inv.plan_id, inv.promo_id)
    /\ \A i \in 1 .. Len(manual_payments) :
            manual_payments[i].amount_cents
                \in AmountsOf(manual_payments[i].plan_id,
                              IF manual_payments[i].promo_id = NULL THEN 0
                              ELSE manual_payments[i].promo_id)

\* ------------------------------------------------------------------- C24
\* C24: the loop thread never terminates: whenever an exception is raised in
\* its body it is in the except clause, logs the exception and comes back
\* to the top of the body, where it evaluates the triggers again.
C24_LoopSurvivesExceptions ==
    /\ [](loop.pc \in {"evaluate", "except"})
    /\ [](loop.pc = "except" => <>(loop.pc = "evaluate"))
    /\ [][loop.pc = "except" => loop'.logged = loop.logged + 1]_loop

\* the sweep of the 6th has been run by the thread after it had logged
\* exceptions
C24_Witness ==
    /\ last.op = "loop_remove_unpaid"
    /\ loop.pc = "evaluate"
    /\ loop.logged = MaxLoopErrors
    /\ \E i \in 1 .. Len(subscriptions) : subscriptions[i].removed = 1

\* ------------------------------------------------------------------- C25
\* C25: the price_cents a plan is stored with, by the creation of a plan or
\* by an edit of its price, is never negative.
C25_StoredPriceNotNegative ==
    \A i \in 1 .. Len(admin.plan_price) : admin.plan_price[i] >= 0

\* ------------------------------------------------------------------- C26
IsDigits(s) == \A i \in 1 .. Len(s) : IsDigit(s[i])

\* the text is W.F: a whole part W of one or more digits, a point and a
\* fraction F of digits
IsPriceText(s) ==
    /\ \E i \in 1 .. Len(s) : s[i] = "."
    /\ split_dot(s, 1) # << >>
    /\ IsDigits(split_dot(s, 1))
    /\ IsDigits(split_dot(s, 2))
    /\ Len(s) = Len(split_dot(s, 1)) + 1 + Len(split_dot(s, 2))

\* the whole part without its leading zeros
RECURSIVE WholeShown(_)
WholeShown(w) ==
    IF Len(w) > 1 /\ w[1] = "0" THEN WholeShown(Tail(w)) ELSE w

\* the fraction cut or filled with zeros to two digits
TwoDigits(f) ==
    <<IF Len(f) >= 1 THEN f[1] ELSE "0", IF Len(f) >= 2 THEN f[2] ELSE "0">>

\* C26: the price shown for a text W.F is the whole part W, a point, the
\* fraction F cut or zero-filled to exactly two digits, and the currency
\* code; for a text W.FF it is the whole part and the fraction of the text.
C26_PriceRoundTrip ==
    (admin.step \in {"description", "saved", "edit_choice"}
        /\ IsPriceText(admin.text))
    => /\ admin.shown =
            WholeShown(split_dot(admin.text, 1)) \o <<".">>
                \o TwoDigits(split_dot(admin.text, 2)) \o <<" ", CURRENCY>>
       /\ Len(split_dot(admin.text, 2)) = 2 =>
            SubSeq(admin.shown, Len(admin.shown) - 4, Len(admin.shown) - 2)
                = SubSeq(admin.text, Len(admin.text) - 2, Len(admin.text))

\* the price of a text W.FF whose fraction does not end in 0 has been shown
C26_Witness ==
    /\ admin.step \in {"description", "edit_choice"}
    /\ IsPriceText(admin.text)
    /\ Len(split_dot(admin.text, 2)) = 2
    /\ admin.text[Len(admin.text)] # "0"
    /\ admin.shown # << >>

C29_RemovedOnlyAfterSuccessfulBan ==
    [][\A i \in 1 .. Len(subscriptions) :
            (subscriptions[i].removed = 0 /\ subscriptions'[i].removed = 1)
                => /\ last'.op \in SweepOps
                   /\ i \in last'.ban_ok]_vars

\* ------------------------------------------------------------------- C30
\* the validity of the row has not ended
Unexpired(row) == row.active = 1 /\ row.end_ts >= now

\* the row is not stamped with the current period
StalePeriod(row) ==
    \/ row.current_period_month # period_of[now][1]
    \/ row.current_period_year # period_of[now][2]

\* C30: whenever and however the removal sweep is run, an active row whose
\* end_ts has not passed keeps active=1 and removed=0 (and is neither
\* fetched nor banned), also when its period is stale.
C30_NoRevocationBeforeEndTs ==
    [][\A i \in 1 .. Len(subscriptions) :
            (Unexpired(subscriptions[i]) /\ subscriptions[i].removed = 0)
                => /\ subscriptions'[i].active = 1
                   /\ subscriptions'[i].removed = 0
                   /\ (last'.op \in SweepOps /\ last' # last)
                        => i \notin (last'.swept \cup last'.banned)]_vars

\* the administrator's sweep of 3 January has revoked a row whose end_ts
\* had passed and has left a row of a stale period whose end_ts has not
C30_Witness ==
    /\ last.op = "cmd_run_remove_unpaid"
    /\ last.swept # {}
    /\ \E i \in 1 .. Len(subscriptions) :
            /\ Unexpired(subscriptions[i])
            /\ StalePeriod(subscriptions[i])
            /\ subscriptions[i].removed = 0

\* ------------------------------------------------------------------ C35
\* C35: in every reachable state each subscription row is either tracked
\* (active = 1, removed = 0) or Removed (active = 0, removed = 1): no row has
\* active = 1 with removed = 1, and none has active = 0 with removed = 0.
C35_TrackedOrRemoved ==
    \A i \in 1 .. Len(subscriptions) :
        \/ subscriptions[i].active = 1 /\ subscriptions[i].removed = 0
        \/ subscriptions[i].active = 0 /\ subscriptions[i].removed = 1

\* the sweep has just removed a row and the table also holds a tracked row
C35_Witness ==
    /\ last.op \in SweepOps
    /\ \E i \in last.swept :
            subscriptions[i].active = 0 /\ subscriptions[i].removed = 1
    /\ \E j \in 1 .. Len(subscriptions) :
            subscriptions[j].active = 1 /\ subscriptions[j].removed = 0

\* ------------------------------------------------------------------- C36
\* C36: no invite link is issued to a user who is no administrator for a
\* subscription that is Removed (active = 0, removed = 1) or not paid for the
\* current period: a step of callback_new_link that hands a link to such a
\* caller is a step on a tracked row paid for the current period.
C36_NoLinkForRemovedOrUnpaid ==
    [][(/\ last'.op = "callback_new_link"
        /\ last' # last
        /\ last'.ok
        /\ last'.user \notin ADMIN_IDS)
            => /\ subscriptions[last'.sub].active = 1
               /\ subscriptions[last'.sub].removed = 0
               /\ PaidForCurrentPeriod(last'.sub)]_vars

\* ------------------------------------------------------------------- C37
\* C37: the billing period a confirmed payment stamps on a subscription is
\* the period recorded on the invoice that was paid, also when the gateway
\* success arrives in a later month than the one the invoice was created in.
\* (The period columns of a manual-payment ticket are written by
\* handle_full_name and read by no handler, like those of the invoice; the
\* approval stamps the period of its own clock in the same way.)
C37_PeriodOfThePaidInvoice ==
    [][(/\ last'.op = "got_payment"
        /\ last' # last
        /\ last'.ok
        /\ last'.did \in {"insert", "renew"})
            => /\ subscriptions'[last'.sub].current_period_month
                    = last'.period[1]
               /\ subscriptions'[last'.sub].current_period_year
                    = last'.period[2]]_vars

\* ------------------------------------------------------------------- C38
\* the user's subscription to the plan is paid for the current period
PaidSubscription(u, p) ==
    \E i \in 1 .. Len(subscriptions) :
        /\ subscriptions[i].user_id = u
        /\ subscriptions[i].plan_id = p
        /\ subscriptions[i].active = 1
        /\ PaidForCurrentPeriod(i)

\* C38: no invoice and no manual-payment ticket is created for a (user, plan)
\* whose subscription is paid for the current period, through any purchase
\* entry point (new purchase, renewal, purchase with a promo code).
C38_NoInvoiceForPaidSubscription ==
    [][/\ \A payload \in sent_invoices' \ sent_invoices :
            ~PaidSubscription(payload.user_id, payload.plan_id)
       /\ Len(manual_payments') > Len(manual_payments)
            => ~PaidSubscription(manual_payments'[Len(manual_payments')].user_id,
                                 manual_payments'[Len(manual_payments')].plan_id)]_vars

\* ------------------------------------------------------------------- C39
\* C39: for a promo code with a max-uses cap, the usage counter never exceeds
\* the cap, whatever the number of users who entered the code and the order
\* in which their invoices are created and paid.
C39_UsedCountWithinCap ==
    \A i \in DOMAIN promo_codes :
        (promo_codes[i].max_uses # NULL /\ promo_codes[i].max_uses # 0)
            => promo_codes[i].used_count <= promo_codes[i].max_uses

\* ------------------------------------------------------------------- C40
\* the loop's deadline trigger: the 4th of the month at 18:00
DeadlineTrigger ==
    local_day(now) = 4 /\ local_hour(now) = 18 /\ local_minute(now) = 0

\* row i is active, was last paid in the month before the current one (its
\* validity ends on the 5th of the current month) and has not been renewed
PaidLastMonthOnly(i) ==
    LET row == subscriptions[i]
        month == get_current_period[1]
        year == get_current_period[2]
    IN  /\ row.active = 1
        /\ row.part_paid = "full"
        /\ row.current_period_month = (IF month = 1 THEN 12 ELSE month - 1)
        /\ row.current_period_year = (IF month = 1 THEN year - 1 ELSE year)
        /\ row.end_ts = timestamp(year, month, 5, 23, 59, 59)

\* C40: a subscription last paid in month M (its end_ts is the 5th of month
\* M+1) that has not been renewed is a recipient of the 'deadline
\* approaching' reminder the loop runs at its Day-4 trigger of month M+1,
\* the day before its validity ends.
C40_DeadlineReminderOnDayFour ==
    DeadlineTrigger =>
        \A i \in 1 .. Len(subscriptions) :
            PaidLastMonthOnly(i) => i \in deadline_to_remind

\* ------------------------------------------------------------------- C31
\* C31: when an activation of (user, plan) interleaves with a running
\* removal sweep (the sweep thread has selected its rows and processes them
\* one by one), the subscription is never left banned and marked
\* active = 0 / removed = 1 after the activation has committed it as paid
\* for the current period.
C31_PaidRowNotRemovedBySweep ==
    \A i \in 1 .. Len(subscriptions) :
        PaidNow(subscriptions[i])
            => ~ /\ subscriptions[i].active = 0
                 /\ subscriptions[i].removed = 1
                 /\ subscriptions[i].user_id \in banned

\* ------------------------------------------------------------------- C32
\* the workers whose current or latest handler is a review of ticket id
\* (each found the ticket pending)
ReviewsOf(id) ==
    {t \in Workers :
        threads[t].op = "handle_payment_review" /\ threads[t].ticket = id}

\* C32: when the same pending ticket is reviewed concurrently (approve /
\* approve or approve / reject), the ticket is reviewed exactly once: at most
\* one activation is triggered by it, and once the reviews have ended the
\* ticket's status is not 'rejected' while the subscription was activated by
\* that ticket.
C32_TicketReviewedOnce ==
    \A id \in 1 .. Len(manual_payments) :
        /\ Cardinality({t \in ReviewsOf(id) : threads[t].activated}) <= 1
        /\ (/\ \A t \in ReviewsOf(id) : threads[t].pc = "idle"
            /\ manual_payments[id].status = "rejected")
                => \A t \in ReviewsOf(id) : ~threads[t].activated

\* ------------------------------------------------------------------- C33
\* C33: when two activations for the same (user, plan) with no active row
\* run concurrently (a gateway success and a manual approval handled by
\* different workers), the pair still has at most one active row afterwards.
C33_OneActiveRowAfterConcurrentActivations ==
    \A u \in Users, p \in DOMAIN plans :
        \A i \in ActiveRows(u, p), j \in ActiveRows(u, p) : i = j

\* ------------------------------------------------------------------- C34
\* C34: each handler and the sweep read back the result of their own most
\* recent query: a fetch never returns the rows of a query that another
\* thread executed on the shared cursor in between.
C34_FetchReadsOwnQuery ==
    \A t \in ThreadIds : threads[t].fetched_from \in {"none", t}

====
